---- MODULE Spec2Model ----
(***************************************************************************)
(* Verification model of the NextDraw plotter API server:                  *)
(*   - PlotterController (src/plotter_controller.py): the single-device    *)
(*     state machine with execute_job / pause / resume / stop;             *)
(*   - JobQueue (src/job_queue.py): the priority queue of plot jobs.       *)
(*                                                                         *)
(* Every `with self.lock:` block is one atomic action.  Code that runs     *)
(* outside the lock (driver setup, the blocking plot_run, the code after   *)
(* it, the `finally` block that re-takes the lock) is a separate step of   *)
(* the calling thread, so other threads interleave between the steps.      *)
(***************************************************************************)
EXTENDS Integers, Sequences, FiniteSets, TLC

\* ---------------------------------------------------------------- bounds
\* Number of execute_job calls in the concurrent-submission scenario
\* (SpecExecute); each call carries its own job (job id = call id).
MaxJob == 3
\* Number of execute_job calls when pause, resume, stop and initialize
\* interleave with them (SpecController).
MaxCtlJob == 2
\* Number of worker threads resume() may start in one run.
MaxResume == 1
\* Number of add_job calls in one run (job ids are fresh, like uuid4).
MaxQJobs == 3
\* Priorities range over 1..MaxPrio.
MaxPrio == 2
\* Number of file operations of save_queue that fail in one run
\* (SpecPersist).
MaxFaults == 2
\* Number of process_jobs threads alive at a time (SpecDispatch).
MaxThreads == 2
\* The value of self.max_queue_size in the runs that fill the queue
\* (SpecCapacity); the capacity test is the same for every value.
QueueCap == 2
\* An upload session has up to MaxChunks chunks; a chunk's bytes are one of
\* MaxData values.
MaxChunks == 3
MaxData == 2
\* A project has up to MaxLayers layers.
MaxLayers == 2

\* `None` for current_job.
NoJob == 0

Jobs == 1..MaxJob
CtlJobs == {j \in Jobs : j <= MaxCtlJob}
Workers == 1..MaxResume
Threads == 1..MaxThreads

\* self.nextdraw: None, or a NextDraw() instance.
NoInst == "none"
Inst == "NextDraw"

VARIABLES
    \* PlotterController fields.  output_svg and progress_plob are TRUE when
    \* they hold an artifact (the artifact itself is opaque), FALSE when None;
    \* job_svg is TRUE when the dict self.current_job has the key 'output_svg'.
    status, current_job, is_plotting, is_paused, nextdraw,
    output_svg, progress_plob, job_svg, stats,
    \* driver (external): whether it has get_progress_plob
    hasPlob,
    \* execute_job calls: position of each call and, from its `return`
    \* statement until the call has returned, its return value
    pc, res,
    \* resume_thread workers: position of each
    rpc,
    \* JobQueue fields
    jobs, queue, next_id,
    \* history of the queue: how many times get_next_job has returned each id
    handed,
    \* the queue file and its .backup on disk: "none" (no such file),
    \* "partial" (a write that did not finish), "saved" (the state written
    \* by the last save_queue whose write succeeded) or "old" (the state
    \* written by an earlier one); mem_saved is TRUE when self.jobs and
    \* self.queue are what the last successful save_queue wrote
    qfile, qbackup, mem_saved,
    \* the environment: how many more file operations of save_queue fail
    faults,
    \* history of the controller: "stopped" from an accepted stop() until
    \* the next accepted execute_job, "executed" from then until the next
    \* accepted pause(), "no_stop" otherwise
    since_stop,
    \* TRUE while the last assignment of self.status is the "ERROR" of a
    \* failed initialize() (InitializeFailNoted)
    init_failed,
    \* the execute_utility call of a client: its position, the execute_job
    \* call it makes (bullseye) and the controller fields it found
    util,
    \* app.py: app_status["current_job"], and the process_jobs thread: its
    \* position and the job it holds
    app_current_job, proc_pc, proc_job,
    \* the number of accepted submissions whose handler has gone on to its
    \* is_idle test (and has started a process_jobs thread or not)
    handled,
    \* the upload session of a client: the file it uploads, chunk by chunk,
    \* and the total_chunks it states in every request
    orig, total_chunks,
    \* /plot/chunk of app.py: whether the session's temp_dir exists, the
    \* chunk files in it, the file last assembled, the number of assemblies,
    \* and the position of the request that carries each chunk index
    ep_dir, ep_tmp, ep_final, ep_assemblies, ep_pc,
    \* ProjectManager: current_project (pm_project is FALSE for None), its
    \* fields, its layers, and per layer the chunk files in temp/ and the
    \* file in layers/
    pm_project, pm_total_layers, pm_status, pm_uploaded, pm_layers,
    pm_tmp, pm_file,
    \* history of the ProjectManager: what the last create_project call
    \* found, "nothing" (no project), "project" (a project without files) or
    \* "files" (a project with layer or chunk files in its directory)
    pm_replaced,
    \* SVGManager: current_svg (svg_cur is FALSE for None), its 'uploading'
    \* and 'upload_progress', the chunk files in temp/ and the SVG file
    svg_cur, svg_uploading, svg_progress, svg_tmp, svg_file,
    \* the client of the SVGManager: the chunk indices it has sent, where a
    \* run keeps track of them (SvgSendOnce)
    svg_sent,
    \* self.lock of the PlotterController: the call that is inside one of
    \* its `with self.lock:` blocks, NoHolder when the lock is free
    lock,
    \* initialize(): "raised" from the `raise` after a connect() that
    \* returned False until the except handler has run, "none" otherwise
    init_pc,
    \* history of stop(): the jobs that were current_job, their draw call
    \* not yet returned, at an accepted stop(), where a run keeps track of
    \* them (StopOkNoted)
    stopped

ctlVars == <<status, current_job, is_plotting, is_paused, nextdraw,
             output_svg, progress_plob, job_svg, stats>>
drvVars == <<hasPlob>>
callVars == <<pc, res>>
workerVars == <<rpc>>
queueVars == <<jobs, queue, next_id, handed>>
histVars == <<since_stop, init_failed>>
diskVars == <<qfile, qbackup, mem_saved, faults>>
appVars == <<app_current_job, proc_pc, proc_job, handled>>
sessVars == <<orig, total_chunks>>
epVars == <<ep_dir, ep_tmp, ep_final, ep_assemblies, ep_pc>>
pmVars == <<pm_project, pm_total_layers, pm_status, pm_uploaded, pm_layers,
            pm_tmp, pm_file, pm_replaced>>
svgVars == <<svg_cur, svg_uploading, svg_progress, svg_tmp, svg_file, svg_sent>>
uploadVars == <<sessVars, epVars, pmVars, svgVars>>
utilVars == <<util>>
lockVars == <<lock>>
initVars == <<init_pc>>
stopVars == <<stopped>>
progVars == <<ctlVars, drvVars, callVars, workerVars, queueVars, histVars, appVars,
              uploadVars, diskVars, utilVars, initVars, stopVars>>
vars == <<progVars, lockVars>>

\* The calls that take self.lock.  A `with self.lock:` block is entered by
\* LockTake and left by the action of the block, which releases the lock;
\* a block entered while the lock is free is one step.
NoHolder == <<"none", 0>>
InitCall == <<"initialize", 0>>
ExecCall(j) == <<"execute_job", j>>
PauseCall == <<"pause", 0>>
ResumeCall == <<"resume", 0>>
WorkerCall(w) == <<"resume_thread", w>>
StopCall == <<"stop", 0>>
LockedBy(c) == lock \in {NoHolder, c}
Unlock == lock' = NoHolder

\* ------------------------------------------------------- PlotterController

\* The fields of the controller that a caller of get_status sees.
Snapshot ==
    [status |-> status, is_plotting |-> is_plotting, is_paused |-> is_paused,
     current_job |-> current_job]
NoSnapshot ==
    [status |-> "none", is_plotting |-> FALSE, is_paused |-> FALSE,
     current_job |-> NoJob]
\* No execute_utility call has been made.
NoUtility == [phase |-> "none", job |-> NoJob, pre |-> NoSnapshot]

\* The driver library either offers get_progress_plob or does not.
InitDriver == hasPlob \in BOOLEAN

\* PlotterController.__init__
InitController ==
    /\ status = "DISCONNECTED"
    /\ current_job = NoJob
    /\ is_plotting = FALSE
    /\ is_paused = FALSE
    /\ nextdraw = NoInst
    /\ output_svg = FALSE
    /\ progress_plob = FALSE
    /\ job_svg = FALSE
    /\ stats = [total_jobs |-> 0, successful_jobs |-> 0, failed_jobs |-> 0]
    /\ pc = [j \in Jobs |-> "new"]
    /\ res = [j \in Jobs |-> "none"]
    /\ rpc = [w \in Workers |-> "new"]
    /\ since_stop = "no_stop"
    /\ init_failed = FALSE
    /\ util = NoUtility
    /\ lock = NoHolder
    /\ init_pc = "none"
    /\ stopped = {}

\* The controller after a successful initialize(): IDLE, driver instance kept.
InitIdleController ==
    /\ status = "IDLE"
    /\ current_job = NoJob
    /\ is_plotting = FALSE
    /\ is_paused = FALSE
    /\ nextdraw = Inst
    /\ output_svg = FALSE
    /\ progress_plob = FALSE
    /\ job_svg = FALSE
    /\ stats = [total_jobs |-> 0, successful_jobs |-> 0, failed_jobs |-> 0]
    /\ pc = [j \in Jobs |-> "new"]
    /\ res = [j \in Jobs |-> "none"]
    /\ rpc = [w \in Workers |-> "new"]
    /\ since_stop = "no_stop"
    /\ init_failed = FALSE
    /\ util = NoUtility
    /\ lock = NoHolder
    /\ init_pc = "none"
    /\ stopped = {}

\* initialize(): connect() succeeded.  app.py calls it at start-up; it is
\* also the way out of ERROR.
InitializeOk ==
    /\ LockedBy(InitCall)
    /\ status \in {"DISCONNECTED", "ERROR"}
    /\ nextdraw' = Inst
    /\ status' = "IDLE"
    /\ UNCHANGED <<current_job, is_plotting, is_paused, output_svg,
                   progress_plob, job_svg, stats>>
    /\ UNCHANGED <<drvVars, stopVars, initVars, uploadVars, appVars, callVars, workerVars, queueVars,
                   diskVars, utilVars>>
    /\ init_failed' = FALSE
    /\ UNCHANGED since_stop
    /\ Unlock

\* initialize(): NextDraw() raised (self.nextdraw keeps its value), or
\* connect() failed or raised (the new instance is kept); the handler
\* leaves ERROR.  This is the call from its start to its end; the two
\* assignments made when connect() returns False are the steps
\* InitializeConnectFails and InitializeHandler.
InitializeFails(noted) ==
    /\ LockedBy(InitCall)
    /\ status \in {"DISCONNECTED", "ERROR"}
    /\ nextdraw' \in {nextdraw, Inst}
    /\ status' = "ERROR"
    /\ UNCHANGED <<current_job, is_plotting, is_paused, output_svg,
                   progress_plob, job_svg, stats>>
    /\ UNCHANGED <<drvVars, stopVars, initVars, uploadVars, appVars, callVars, workerVars, queueVars,
                   diskVars, utilVars>>
    /\ init_failed' = noted
    /\ UNCHANGED since_stop
    /\ Unlock

\* initialize(): connect() returned False.  `self.status =
\* "CONNECTION_ERROR"` and the `raise`, which leaves the `with` block.
InitializeConnectFails ==
    /\ LockedBy(InitCall)
    /\ status \in {"DISCONNECTED", "ERROR"}
    /\ init_pc = "none"
    /\ nextdraw' = Inst
    /\ status' = "CONNECTION_ERROR"
    /\ init_pc' = "raised"
    /\ UNCHANGED <<current_job, is_plotting, is_paused, output_svg,
                   progress_plob, job_svg, stats>>
    /\ UNCHANGED <<drvVars, stopVars, uploadVars, appVars, callVars, workerVars, queueVars,
                   diskVars, utilVars>>
    /\ init_failed' = FALSE
    /\ UNCHANGED since_stop
    /\ Unlock

\* initialize(): the except handler, outside the lock: `self.status =
\* "ERROR"`, then the exception is raised again.
InitializeHandler ==
    /\ init_pc = "raised"
    /\ status' = "ERROR"
    /\ init_pc' = "none"
    /\ UNCHANGED <<current_job, is_plotting, is_paused, nextdraw, output_svg,
                   progress_plob, job_svg, stats>>
    /\ UNCHANGED <<drvVars, stopVars, lockVars, uploadVars, appVars, callVars, workerVars,
                   queueVars, diskVars, utilVars>>
    /\ init_failed' = FALSE
    /\ UNCHANGED since_stop

\* Where no property looks at the outcome of initialize(), the history of
\* it is not kept.
InitializeFail == InitializeFails(FALSE)
InitializeFailNoted == InitializeFails(TRUE)

\* is_idle()
IsIdle == status = "IDLE" \/ (status = "DISCONNECTED" /\ ~is_plotting)

\* execute_job's admission test: `if self.is_plotting: return Busy`
ExecuteAccepts == ~is_plotting

\* Calls are numbered in the order in which they take the lock.
NextCall(j) == pc[j] = "new" /\ \A k \in Jobs : k < j => pc[k] # "new"

\* execute_job, first locked block, job admitted.  job_data is a dict made
\* for this job, so it has no 'output_svg' key yet.
ExecAdmit(j) ==
    /\ LockedBy(ExecCall(j))
    /\ pc[j] = "new"
    /\ ExecuteAccepts
    /\ current_job' = j
    /\ job_svg' = FALSE
    /\ is_plotting' = TRUE
    /\ is_paused' = FALSE
    /\ status' = "PLOTTING"
    /\ pc' = [pc EXCEPT ![j] = "setup"]
    /\ UNCHANGED <<nextdraw, output_svg, progress_plob, stats, res>>
    /\ UNCHANGED <<drvVars, stopVars, initVars, uploadVars, appVars, workerVars, queueVars,
                   diskVars, utilVars>>
    /\ since_stop' = IF since_stop = "stopped" THEN "executed" ELSE since_stop
    /\ init_failed' = FALSE
    /\ Unlock

\* The calls of clients, numbered in the order in which they take the lock.
ExecAccept(j) == NextCall(j) /\ ExecAdmit(j)

\* execute_job, first locked block, `return {"success": False, "error":
\* "Plotter is already busy"}`: the return leaves the `with` and then
\* runs the `finally` block of the enclosing try.
ExecRefuse(j) ==
    /\ LockedBy(ExecCall(j))
    /\ pc[j] = "new"
    /\ ~ExecuteAccepts
    /\ pc' = [pc EXCEPT ![j] = "fin"]
    /\ res' = [res EXCEPT ![j] = "Busy"]
    /\ UNCHANGED <<ctlVars, drvVars, stopVars, initVars, uploadVars, appVars, histVars, workerVars, queueVars,
                   diskVars, utilVars>>
    /\ Unlock

ExecBusy(j) == NextCall(j) /\ ExecRefuse(j)

\* execute_job between the locked block and plot_run: a fresh NextDraw(),
\* plot_setup of the job's SVG, options, and the call of plot_run.  `src`
\* is the job's source: "ok" has inline content or an existing file,
\* "nosvg" has neither, "raise" is a driver or parsing exception (handled
\* by the outer except).
ExecSetup(j, src) ==
    /\ pc[j] = "setup"
    /\ nextdraw' = Inst
    /\ pc' = [pc EXCEPT ![j] = IF src = "ok" THEN "draw" ELSE "fin"]
    /\ res' = [res EXCEPT ![j] = CASE src = "ok" -> "none"
                                   [] src = "nosvg" -> "NoSvg"
                                   [] OTHER -> "error"]
    /\ stats' = IF src = "raise"
                THEN [stats EXCEPT !.failed_jobs = @ + 1]
                ELSE stats
    /\ UNCHANGED <<status, current_job, is_plotting, is_paused, output_svg,
                   progress_plob, job_svg>>
    /\ UNCHANGED <<drvVars, stopVars, initVars, lockVars, uploadVars, appVars, histVars, workerVars, queueVars,
                   diskVars, utilVars>>

\* The result execute_job computes once plot_run has returned.
DrawResult ==
    IF ~is_plotting
    THEN (IF is_paused THEN "paused" ELSE "cancelled")
    ELSE "ok"

\* execute_job: plot_run returned; the unlocked code after it.
ExecDrawReturn(j) ==
    /\ pc[j] = "draw"
    /\ output_svg' = TRUE
    /\ res' = [res EXCEPT ![j] = DrawResult]
    /\ stats' = IF DrawResult = "ok"
                THEN [stats EXCEPT !.total_jobs = @ + 1,
                                   !.successful_jobs = @ + 1]
                ELSE stats
    /\ job_svg' = IF DrawResult = "ok" /\ current_job # NoJob
                  THEN TRUE
                  ELSE job_svg
    /\ pc' = [pc EXCEPT ![j] = "fin"]
    /\ UNCHANGED <<status, current_job, is_plotting, is_paused, nextdraw,
                   progress_plob>>
    /\ UNCHANGED <<drvVars, stopVars, initVars, lockVars, uploadVars, appVars, histVars, workerVars, queueVars,
                   diskVars, utilVars>>

\* execute_job: plot_run raised (inner except); the call returns the
\* error of the draw.
ExecDrawRaise(j) ==
    /\ pc[j] = "draw"
    /\ res' = [res EXCEPT ![j] = "draw_error"]
    /\ stats' = [stats EXCEPT !.failed_jobs = @ + 1]
    /\ pc' = [pc EXCEPT ![j] = "fin"]
    /\ UNCHANGED <<status, current_job, is_plotting, is_paused, nextdraw,
                   output_svg, progress_plob, job_svg>>
    /\ UNCHANGED <<drvVars, stopVars, initVars, lockVars, uploadVars, appVars, histVars, workerVars, queueVars,
                   diskVars, utilVars>>

\* process_jobs is inside plotter_controller.execute_job(job) for the job it
\* took from the queue; the call carries the job's id.
ProcWaitsFor(j) == \E t \in Threads : proc_pc[t] = "exec" /\ proc_job[t] = j

\* execute_job's `finally` block (locked); it runs on every return path.
\* The call then returns res[j] to its caller; the result is kept only for
\* process_jobs, which acts on it.
ExecFinally(j) ==
    /\ LockedBy(ExecCall(j))
    /\ pc[j] = "fin"
    /\ current_job' = IF ~is_paused THEN NoJob ELSE current_job
    /\ job_svg' = IF ~is_paused THEN FALSE ELSE job_svg
    /\ output_svg' = IF ~is_paused THEN FALSE ELSE output_svg
    /\ is_plotting' = FALSE
    /\ status' = IF ~is_paused THEN "IDLE" ELSE status
    /\ pc' = [pc EXCEPT ![j] = "done"]
    /\ res' = IF ProcWaitsFor(j) THEN res ELSE [res EXCEPT ![j] = "none"]
    /\ UNCHANGED <<is_paused, nextdraw, progress_plob, stats>>
    /\ UNCHANGED <<drvVars, stopVars, initVars, uploadVars, appVars, workerVars, queueVars,
                   diskVars, utilVars>>
    /\ init_failed' = (IF ~is_paused THEN FALSE ELSE init_failed)
    /\ UNCHANGED since_stop
    /\ Unlock

\* pause()'s admission test: `if not self.is_plotting or self.is_paused:
\* return False`
PauseAccepts == is_plotting /\ ~is_paused

\* pause(): `if self.nextdraw: self.nextdraw.transmit_pause_request()`
PauseSignalsDriver == nextdraw # NoInst

\* pause(), accepted: flag and status, then the pause request on
\* self.nextdraw (if there is one), the progress plob (if the driver has
\* one) and the copy of output_svg into the current job.
PauseOk ==
    /\ LockedBy(PauseCall)
    /\ PauseAccepts
    /\ is_paused' = TRUE
    /\ status' = "PAUSED"
    /\ progress_plob' = IF nextdraw # NoInst /\ hasPlob THEN TRUE
                        ELSE progress_plob
    /\ job_svg' = IF output_svg /\ current_job # NoJob THEN TRUE
                  ELSE job_svg
    /\ UNCHANGED <<current_job, is_plotting, nextdraw, output_svg, stats>>
    /\ UNCHANGED <<drvVars, stopVars, initVars, uploadVars, appVars, callVars, workerVars, queueVars,
                   diskVars, utilVars>>
    /\ since_stop' = IF since_stop = "executed" THEN "no_stop" ELSE since_stop
    /\ init_failed' = FALSE
    /\ Unlock

\* pause(), rejected: returns False before any assignment.
PauseReject ==
    /\ LockedBy(PauseCall)
    /\ ~PauseAccepts
    /\ UNCHANGED progVars
    /\ Unlock

\* resume()'s first test: `if not self.is_paused or not self.current_job`
ResumeHasPausedJob == is_paused /\ current_job # NoJob

\* resume()'s search for resume data: the progress plob, else the current
\* job's output_svg, else self.output_svg.
ResumeHasArtifact ==
    \/ progress_plob
    \/ (current_job # NoJob /\ job_svg)
    \/ output_svg

ResumeAccepts == ResumeHasPausedJob /\ ResumeHasArtifact

\* resume() handing its lock to the resume_thread it starts.
ResumeOkKeepsLock(w) ==
    /\ LockedBy(ResumeCall)
    /\ ResumeAccepts
    /\ rpc[w] = "new"
    /\ \A v \in Workers : v < w => rpc[v] # "new"
    /\ nextdraw' = Inst
    /\ rpc' = [rpc EXCEPT ![w] = "start"]
    /\ is_paused' = FALSE
    /\ is_plotting' = TRUE
    /\ status' = "PLOTTING"
    /\ UNCHANGED <<current_job, output_svg, progress_plob, job_svg, stats>>
    /\ UNCHANGED <<drvVars, stopVars, initVars, uploadVars, appVars, callVars, queueVars,
                   diskVars, utilVars>>
    /\ init_failed' = FALSE
    /\ UNCHANGED since_stop
    /\ lock' = WorkerCall(w)

\* resume(), accepted: plot_setup of the artifact on self.nextdraw, the
\* resume_thread started, flags and status set.  The worker started is the
\* lowest unused one.
ResumeOk(w) ==
    /\ LockedBy(ResumeCall)
    /\ ResumeAccepts
    /\ rpc[w] = "new"
    /\ \A v \in Workers : v < w => rpc[v] # "new"
    /\ nextdraw' = Inst
    /\ rpc' = [rpc EXCEPT ![w] = "start"]
    /\ is_paused' = FALSE
    /\ is_plotting' = TRUE
    /\ status' = "PLOTTING"
    /\ UNCHANGED <<current_job, output_svg, progress_plob, job_svg, stats>>
    /\ UNCHANGED <<drvVars, stopVars, initVars, uploadVars, appVars, callVars, queueVars,
                   diskVars, utilVars>>
    /\ init_failed' = FALSE
    /\ UNCHANGED since_stop
    /\ Unlock

\* resume(): the driver raised inside the locked block (NextDraw(),
\* plot_setup or update); the outer handler sets ERROR and returns False.
\* Nothing else has been assigned by then.
ResumeRaise ==
    /\ LockedBy(ResumeCall)
    /\ ResumeAccepts
    /\ nextdraw' = Inst
    /\ status' = "ERROR"
    /\ UNCHANGED <<current_job, is_plotting, is_paused, output_svg,
                   progress_plob, job_svg, stats>>
    /\ UNCHANGED <<drvVars, stopVars, initVars, uploadVars, appVars, callVars, workerVars, queueVars,
                   diskVars, utilVars>>
    /\ init_failed' = FALSE
    /\ UNCHANGED since_stop
    /\ Unlock

\* resume(), rejected with "No paused job to resume".
ResumeRejectNotPaused ==
    /\ LockedBy(ResumeCall)
    /\ ~ResumeHasPausedJob
    /\ UNCHANGED progVars
    /\ Unlock

\* resume(), rejected with "No resume data available": a NextDraw() has
\* been made by then if there was none.
ResumeRejectNoData ==
    /\ LockedBy(ResumeCall)
    /\ ResumeHasPausedJob
    /\ ~ResumeHasArtifact
    /\ nextdraw' = Inst
    /\ UNCHANGED <<status, current_job, is_plotting, is_paused, output_svg,
                   progress_plob, job_svg, stats>>
    /\ UNCHANGED <<drvVars, stopVars, initVars, uploadVars, appVars, histVars, callVars, workerVars, queueVars,
                   diskVars, utilVars>>
    /\ Unlock

\* resume_thread: the worker calls plot_run on self.nextdraw.
ResumeRun(w) ==
    /\ rpc[w] = "start"
    /\ rpc' = [rpc EXCEPT ![w] = "draw"]
    /\ UNCHANGED <<ctlVars, drvVars, stopVars, initVars, lockVars, uploadVars, appVars, histVars, callVars, queueVars,
                   diskVars, utilVars>>

\* resume_thread: plot_run returned; the unlocked stores of the output SVG.
ResumeDrawReturn(w) ==
    /\ rpc[w] = "draw"
    /\ job_svg' = IF current_job # NoJob THEN TRUE ELSE job_svg
    /\ output_svg' = IF current_job # NoJob THEN TRUE ELSE output_svg
    /\ rpc' = [rpc EXCEPT ![w] = "fin"]
    /\ UNCHANGED <<status, current_job, is_plotting, is_paused, nextdraw,
                   progress_plob, stats>>
    /\ UNCHANGED <<drvVars, stopVars, initVars, lockVars, uploadVars, appVars, histVars, callVars, queueVars,
                   diskVars, utilVars>>

\* resume_thread: plot_run raised.
ResumeDrawRaise(w) ==
    /\ rpc[w] = "draw"
    /\ rpc' = [rpc EXCEPT ![w] = "err"]
    /\ UNCHANGED <<ctlVars, drvVars, stopVars, initVars, lockVars, uploadVars, appVars, histVars, callVars, queueVars,
                   diskVars, utilVars>>

\* resume_thread: the locked block after a returned draw.
ResumeFinish(w) ==
    /\ LockedBy(WorkerCall(w))
    /\ rpc[w] = "fin"
    /\ is_plotting' = FALSE
    /\ is_paused' = FALSE
    /\ status' = "IDLE"
    /\ rpc' = [rpc EXCEPT ![w] = "done"]
    /\ UNCHANGED <<current_job, nextdraw, output_svg, progress_plob,
                   job_svg, stats>>
    /\ UNCHANGED <<drvVars, stopVars, initVars, uploadVars, appVars, callVars, queueVars,
                   diskVars, utilVars>>
    /\ init_failed' = FALSE
    /\ UNCHANGED since_stop
    /\ Unlock

\* resume_thread: the locked block of the except handler.
ResumeFinishError(w) ==
    /\ LockedBy(WorkerCall(w))
    /\ rpc[w] = "err"
    /\ is_plotting' = FALSE
    /\ is_paused' = FALSE
    /\ status' = "ERROR"
    /\ rpc' = [rpc EXCEPT ![w] = "done"]
    /\ UNCHANGED <<current_job, nextdraw, output_svg, progress_plob,
                   job_svg, stats>>
    /\ UNCHANGED <<drvVars, stopVars, initVars, uploadVars, appVars, callVars, queueVars,
                   diskVars, utilVars>>
    /\ init_failed' = FALSE
    /\ UNCHANGED since_stop
    /\ Unlock

\* stop()'s admission test: `if not self.is_plotting: return False`
StopAccepts == is_plotting

\* stop() clearing is_plotting and the status only: the paused job and its
\* pause flag are kept.
StopOkKeepsPausedJob ==
    /\ LockedBy(StopCall)
    /\ StopAccepts
    /\ is_plotting' = FALSE
    /\ status' = "IDLE"
    /\ since_stop' = "stopped"
    /\ init_failed' = FALSE
    /\ UNCHANGED <<is_paused, current_job, job_svg, nextdraw, output_svg,
                   progress_plob, stats>>
    /\ UNCHANGED <<drvVars, stopVars, initVars, uploadVars, appVars, callVars, workerVars, queueVars,
                   diskVars, utilVars>>
    /\ Unlock

\* stop(), accepted.  The disconnect() of the driver is a request to halt;
\* the draw call in flight returns when the driver gets to it.
StopOkNoting(noted) ==
    /\ LockedBy(StopCall)
    /\ StopAccepts
    /\ is_plotting' = FALSE
    /\ is_paused' = FALSE
    /\ current_job' = NoJob
    /\ job_svg' = FALSE
    /\ status' = "IDLE"
    /\ UNCHANGED <<nextdraw, output_svg, progress_plob, stats>>
    /\ UNCHANGED <<drvVars, initVars, uploadVars, appVars, callVars, workerVars, queueVars,
                   diskVars, utilVars>>
    /\ since_stop' = "stopped"
    /\ init_failed' = FALSE
    /\ Unlock
    /\ stopped' = IF noted /\ current_job # NoJob /\ pc[current_job] \in {"setup", "draw"}
                  THEN stopped \cup {current_job}
                  ELSE stopped

\* Where no property looks at the jobs that were stopped, the history of
\* them is not kept.
StopOk == StopOkNoting(FALSE)
StopOkNoted == StopOkNoting(TRUE)

\* stop(), rejected: returns False before any assignment.
StopReject ==
    /\ LockedBy(StopCall)
    /\ ~StopAccepts
    /\ UNCHANGED progVars
    /\ Unlock

\* ---------------------------------------------------- execute_utility

\* The commands of execute_utility that run on a NextDraw() of their own
\* (`nd`); an unknown command is answered after the same set-up.
PlainUtilities ==
    {"home", "raise_pen", "lower_pen", "toggle_pen", "move", "get_info",
     "disable_motors", "go_to_limit", "unknown"}
UtilityCommands == PlainUtilities \cup {"bullseye"}

\* execute_utility's admission test: `if self.is_plotting: return {"error":
\* "Cannot execute utility while plotting"}` (read without the lock).
UtilityAccepts == ~is_plotting

\* One client issues utility commands, one after the other.
UtilityFree == util.phase # "bullseye"

\* execute_utility, rejected.
UtilityReject(cmd) ==
    /\ UtilityFree
    /\ ~UtilityAccepts
    /\ util' = [phase |-> "rejected", job |-> NoJob, pre |-> NoSnapshot]
    /\ UNCHANGED <<ctlVars, drvVars, stopVars, initVars, lockVars, callVars, workerVars, queueVars,
                   histVars, appVars, uploadVars, diskVars>>

\* execute_utility for a command other than bullseye: everything happens on
\* the local `nd`; whether the driver succeeds, fails or raises, no field of
\* the controller is assigned.
UtilityRun(cmd) ==
    /\ cmd \in PlainUtilities
    /\ UtilityFree
    /\ UtilityAccepts
    /\ util' = [phase |-> "returned", job |-> NoJob, pre |-> NoSnapshot]
    /\ UNCHANGED <<ctlVars, drvVars, stopVars, initVars, lockVars, callVars, workerVars, queueVars,
                   histVars, appVars, uploadVars, diskVars>>

\* execute_utility("bullseye"), admitted: draw_bullseye reads its config and
\* calls self.execute_job(opts).  That call is the next one to take the
\* lock, call j; it is admitted or answered Busy like any other.
UtilityBullseye(j) ==
    /\ UtilityFree
    /\ UtilityAccepts
    /\ NextCall(j)
    /\ util' = [phase |-> "bullseye", job |-> j, pre |-> Snapshot]
    /\ UNCHANGED <<ctlVars, drvVars, stopVars, initVars, lockVars, callVars, workerVars, queueVars,
                   histVars, appVars, uploadVars, diskVars>>

\* execute_utility("bullseye"): opening bullseye-helper/bullseyeconfig.json
\* raises; the handler answers the error and execute_job is never called.
UtilityBullseyeNoConfig ==
    /\ UtilityFree
    /\ UtilityAccepts
    /\ util' = [phase |-> "returned", job |-> NoJob, pre |-> NoSnapshot]
    /\ UNCHANGED <<ctlVars, drvVars, stopVars, initVars, lockVars, callVars, workerVars, queueVars,
                   histVars, appVars, uploadVars, diskVars>>

\* execute_utility("bullseye"): execute_job has returned (its result is
\* dropped) and the command answers "Draw Bullseye".
UtilityBullseyeReturn ==
    /\ util.phase = "bullseye"
    /\ pc[util.job] = "done"
    /\ util' = [phase |-> "returned", job |-> NoJob, pre |-> NoSnapshot]
    /\ UNCHANGED <<ctlVars, drvVars, stopVars, initVars, lockVars, callVars, workerVars, queueVars,
                   histVars, appVars, uploadVars, diskVars>>

\* Number of blocking plot_run calls in flight.
DrawsInFlight ==
    Cardinality({j \in Jobs : pc[j] = "draw"})
        + Cardinality({w \in Workers : rpc[w] = "draw"})

\* ------------------------------------------------------------- JobQueue

QIds == 1..MaxQJobs
Prios == 1..MaxPrio

\* self.max_queue_size
max_queue_size == 100

\* jobs is the dict self.jobs: an id that is not a key has status "absent".
\* started_at is TRUE once the start time has been stamped.
NoRecord == [status |-> "absent", priority |-> 1, started_at |-> FALSE]

\* No queue file and no backup: load_queue starts fresh.
InitDisk ==
    /\ qfile = "none"
    /\ qbackup = "none"
    /\ mem_saved = FALSE

\* JobQueue.__init__ with no queue file, on a disk that does not fail.
InitQueue ==
    /\ jobs = [i \in QIds |-> NoRecord]
    /\ queue = <<>>
    /\ next_id = 1
    /\ handed = [i \in QIds |-> 0]
    /\ InitDisk
    /\ faults = 0

\* The same on a disk whose operations may fail MaxFaults times.
InitQueueFaulty ==
    /\ jobs = [i \in QIds |-> NoRecord]
    /\ queue = <<>>
    /\ next_id = 1
    /\ handed = [i \in QIds |-> 0]
    /\ InitDisk
    /\ faults = MaxFaults

\* save_queue.  What a file holds once a later save has succeeded: the
\* state that was the last saved one is now an earlier one.
Older(f) == IF f = "saved" THEN "old" ELSE f

\* save_queue's backup step, `if os.path.exists(queue_file):
\* os.rename(queue_file, backup_file)`: the backup file after it.
BackedUp == IF qfile = "none" THEN qbackup ELSE qfile

\* save_queue's except block, `if os.path.exists(backup_file):
\* os.rename(backup_file, queue_file)`, for a failure that left the queue
\* file holding f and the backup holding b.
Restore(f, b) ==
    /\ qfile' = IF b # "none" THEN b ELSE f
    /\ qbackup' = "none"
    /\ mem_saved' = (mem_saved /\ jobs' = jobs /\ queue' = queue)
    /\ faults' = faults - 1

\* save_queue, every step succeeding: the old file is the backup and the
\* queue file holds self.jobs and self.queue.
SaveWritten ==
    /\ qfile' = "saved"
    /\ qbackup' = Older(BackedUp)
    /\ mem_saved' = TRUE
    /\ faults' = faults

\* save_queue, the rename of the queue file to the backup raising.
SaveFailsRename ==
    /\ faults > 0
    /\ qfile # "none"
    /\ Restore(qfile, qbackup)

\* save_queue, the open of the queue file for writing raising.
SaveFailsOpen ==
    /\ faults > 0
    /\ Restore("none", BackedUp)

\* save_queue, json.dump raising after the file has been opened.
SaveFailsDump ==
    /\ faults > 0
    /\ Restore("partial", BackedUp)

\* save_queue(): it returns normally whichever way it went.
SaveQueue == SaveWritten \/ SaveFailsRename \/ SaveFailsOpen \/ SaveFailsDump

\* Sequence helpers: list.insert(i, x) with a 0-based index i, and
\* list.remove(x)
InsertAt(q, i, x) == SubSeq(q, 1, i) \o <<x>> \o SubSeq(q, i + 1, Len(q))
Remove(q, x) == SelectSeq(q, LAMBDA y : y # x)
InQueue(q, x) == \E i \in 1..Len(q) : q[i] = x

\* add_job's scan with `>=` in place of `>`: the new job goes before the
\* entries of its own priority.
InsertIndexGE(q, p) ==
    IF \E i \in 1..Len(q) : p >= jobs[q[i]].priority
    THEN (CHOOSE i \in 1..Len(q) :
              /\ p >= jobs[q[i]].priority
              /\ \A k \in 1..(i - 1) : ~(p >= jobs[q[k]].priority)) - 1
    ELSE Len(q)

\* add_job's scan: the 0-based index of the first entry whose priority is
\* strictly lower than p, or len(queue) when there is none (append).
InsertIndex(q, p) ==
    IF \E i \in 1..Len(q) : p > jobs[q[i]].priority
    THEN (CHOOSE i \in 1..Len(q) :
              /\ p > jobs[q[i]].priority
              /\ \A k \in 1..(i - 1) : ~(p > jobs[q[k]].priority)) - 1
    ELSE Len(q)

AddAcceptsAtLimit(cap) == Len(queue) <= cap
\* add_job's capacity test, `len(self.queue) >= self.max_queue_size` raising
\* "Queue is full", with self.max_queue_size = cap.
AddAccepts(cap) == Len(queue) < cap

\* add_job(job_data) with job_data['priority'] = p on a queue whose
\* max_queue_size is cap; the new id is fresh.
AddJobWithin(p, cap) ==
    /\ next_id <= MaxQJobs
    /\ AddAccepts(cap)
    /\ jobs' = [jobs EXCEPT ![next_id] =
                   [status |-> "queued", priority |-> p, started_at |-> FALSE]]
    /\ queue' = InsertAt(queue, InsertIndex(queue, p), next_id)
    /\ next_id' = next_id + 1
    /\ UNCHANGED handed
    /\ UNCHANGED <<ctlVars, drvVars, stopVars, initVars, lockVars, uploadVars, appVars, histVars, callVars, workerVars, utilVars>>
    /\ SaveQueue

\* add_job on the queue as constructed (max_queue_size 100).
AddJob(p) == AddJobWithin(p, max_queue_size)

\* add_job raising "Queue is full": nothing has been touched yet.
AddJobFull(cap) ==
    /\ ~AddAccepts(cap)
    /\ UNCHANGED vars

\* get_next_job's scan: the first id of the queue whose job is queued.
HasQueued == \E i \in 1..Len(queue) : jobs[queue[i]].status = "queued"
FirstQueued ==
    queue[CHOOSE i \in 1..Len(queue) :
              /\ jobs[queue[i]].status = "queued"
              /\ \A k \in 1..(i - 1) : jobs[queue[k]].status # "queued"]

\* get_next_job stamping the start time but leaving the status queued.
StartedNotMarked(job) == [job EXCEPT !.started_at = TRUE]

\* The record get_next_job leaves for the job it hands out.
Started(job) == [job EXCEPT !.status = "running", !.started_at = TRUE]

\* get_next_job() taking the job it hands out off the queue list.
GetNextJobPops ==
    /\ HasQueued
    /\ jobs' = [jobs EXCEPT ![FirstQueued] = Started(@)]
    /\ handed' = [handed EXCEPT ![FirstQueued] = @ + 1]
    /\ queue' = Remove(queue, FirstQueued)
    /\ UNCHANGED next_id
    /\ UNCHANGED <<ctlVars, drvVars, stopVars, initVars, lockVars, uploadVars, appVars, histVars, callVars, workerVars, utilVars>>
    /\ SaveQueue

\* get_next_job() returning a job.
GetNextJob ==
    /\ HasQueued
    /\ jobs' = [jobs EXCEPT ![FirstQueued] = Started(@)]
    /\ handed' = [handed EXCEPT ![FirstQueued] = @ + 1]
    /\ UNCHANGED <<queue, next_id>>
    /\ UNCHANGED <<ctlVars, drvVars, stopVars, initVars, lockVars, uploadVars, appVars, histVars, callVars, workerVars, utilVars>>
    /\ SaveQueue

\* get_next_job() returning None.
GetNextNone ==
    /\ ~HasQueued
    /\ UNCHANGED vars

\* complete_job(id, result) for an id of the jobs dict, whatever the status
\* of its job.
CompleteKnownJob(id) ==
    /\ jobs[id].status # "absent"
    /\ jobs' = [jobs EXCEPT ![id].status = "completed"]
    /\ queue' = Remove(queue, id)
    /\ UNCHANGED <<next_id, handed>>
    /\ UNCHANGED <<ctlVars, drvVars, stopVars, initVars, lockVars, uploadVars, appVars, histVars, callVars, workerVars, utilVars>>
    /\ SaveQueue

\* complete_job(id, result); process_jobs calls it for the job it was
\* handed by get_next_job.
CompleteJob(id) == jobs[id].status = "running" /\ CompleteKnownJob(id)

\* fail_job(id, error_message) for an id of the jobs dict.
FailKnownJob(id) ==
    /\ jobs[id].status # "absent"
    /\ jobs' = [jobs EXCEPT ![id].status = "failed"]
    /\ queue' = Remove(queue, id)
    /\ UNCHANGED <<next_id, handed>>
    /\ UNCHANGED <<ctlVars, drvVars, stopVars, initVars, lockVars, uploadVars, appVars, histVars, callVars, workerVars, utilVars>>
    /\ SaveQueue

\* fail_job(id, error_message); same caller.
FailJob(id) == jobs[id].status = "running" /\ FailKnownJob(id)

\* complete_job or fail_job for an id that is not in the jobs dict: nothing
\* is done.
FinishUnknownJob(id) ==
    /\ jobs[id].status = "absent"
    /\ UNCHANGED vars

\* cancel_job accepting a running job as well as a queued one.
CancelAcceptsRunning(id) == jobs[id].status \in {"queued", "running"}

\* cancel_job's test: the id is known and its job is still queued.
CancelAccepts(id) == jobs[id].status # "absent" /\ jobs[id].status = "queued"

\* cancel_job marking the job cancelled but leaving its id in the queue.
CancelJobKeepsEntry(id) ==
    /\ CancelAccepts(id)
    /\ jobs' = [jobs EXCEPT ![id].status = "cancelled"]
    /\ UNCHANGED <<queue, next_id, handed>>
    /\ UNCHANGED <<ctlVars, drvVars, stopVars, initVars, lockVars, uploadVars, appVars, histVars, callVars, workerVars, utilVars>>
    /\ SaveQueue

\* cancel_job(id) returning True.
CancelJob(id) ==
    /\ CancelAccepts(id)
    /\ jobs' = [jobs EXCEPT ![id].status = "cancelled"]
    /\ queue' = Remove(queue, id)
    /\ UNCHANGED <<next_id, handed>>
    /\ UNCHANGED <<ctlVars, drvVars, stopVars, initVars, lockVars, uploadVars, appVars, histVars, callVars, workerVars, utilVars>>
    /\ SaveQueue

\* cancel_job(id) returning False.
CancelReject(id) ==
    /\ ~CancelAccepts(id)
    /\ UNCHANGED vars

\* reorder_job's tests: the id is in the queue and its job is queued.
ReorderAccepts(id) == InQueue(queue, id) /\ jobs[id].status = "queued"

\* new_position taken as a 0-based index: max(0, min(new_position,
\* len(queue)))
ReorderIndexZeroBased(q, pos) ==
    LET m == IF pos < Len(q) THEN pos ELSE Len(q)
    IN IF m < 0 THEN 0 ELSE m

\* max(0, min(new_position - 1, len(queue))) on the queue without the job
ReorderIndex(q, pos) ==
    LET m == IF pos - 1 < Len(q) THEN pos - 1 ELSE Len(q)
    IN IF m < 0 THEN 0 ELSE m

\* reorder_job(id, new_position) returning True.
ReorderJob(id, pos) ==
    /\ ReorderAccepts(id)
    /\ queue' = InsertAt(Remove(queue, id), ReorderIndex(Remove(queue, id), pos), id)
    /\ UNCHANGED <<jobs, next_id, handed>>
    /\ UNCHANGED <<ctlVars, drvVars, stopVars, initVars, lockVars, uploadVars, appVars, histVars, callVars, workerVars, utilVars>>
    /\ SaveQueue

\* reorder_job(id, new_position) returning False.
ReorderReject(id) ==
    /\ ~ReorderAccepts(id)
    /\ UNCHANGED vars

\* clear_queue(): every queued job of the queue is cancelled and removed.
ClearQueue ==
    /\ jobs' = [i \in QIds |->
                   IF InQueue(queue, i) /\ jobs[i].status = "queued"
                   THEN [jobs[i] EXCEPT !.status = "cancelled"]
                   ELSE jobs[i]]
    /\ queue' = SelectSeq(queue, LAMBDA i : jobs[i].status # "queued")
    /\ UNCHANGED <<next_id, handed>>
    /\ UNCHANGED <<ctlVars, drvVars, stopVars, initVars, lockVars, uploadVars, appVars, histVars, callVars, workerVars, utilVars>>
    /\ SaveQueue

\* cleanup_old_jobs(): the terminal jobs older than max_age_days, here the
\* set old, leave the jobs dict (and the queue, if they were in it).
CleanupOldJobs(old) ==
    /\ old # {}
    /\ \A i \in old : jobs[i].status \in {"completed", "failed", "cancelled"}
    /\ jobs' = [i \in QIds |-> IF i \in old THEN NoRecord ELSE jobs[i]]
    /\ queue' = SelectSeq(queue, LAMBDA i : i \notin old)
    /\ UNCHANGED <<next_id, handed>>
    /\ UNCHANGED <<ctlVars, drvVars, stopVars, initVars, lockVars, uploadVars, appVars, histVars, callVars, workerVars, utilVars>>
    /\ SaveQueue

\* update_job_progress(id, progress): the progress of a known job is set
\* and nothing is saved; `changes` says whether the value set differs from
\* the one the job had.
UpdateJobProgress(id, changes) ==
    /\ jobs[id].status # "absent"
    /\ mem_saved' = (mem_saved /\ ~changes)
    /\ UNCHANGED <<qfile, qbackup, faults>>
    /\ UNCHANGED <<ctlVars, drvVars, stopVars, initVars, lockVars, uploadVars, appVars, histVars, callVars,
                   workerVars, queueVars, utilVars>>

\* ------------------------------------------------------------------ app.py

\* The module-level app_status, and one process_jobs thread at the top of
\* its loop; the others have not been started ("off").
InitApp ==
    /\ app_current_job = NoJob
    /\ proc_pc = [t \in Threads |-> IF t = 1 THEN "idle" ELSE "off"]
    /\ proc_job = [t \in Threads |-> NoJob]
    /\ handled = 0

\* process_jobs, thread t: get_next_job() returned a job.
ProcGetBy(t) ==
    /\ proc_pc[t] = "idle"
    /\ HasQueued
    /\ jobs' = [jobs EXCEPT ![FirstQueued] = Started(@)]
    /\ handed' = [handed EXCEPT ![FirstQueued] = @ + 1]
    /\ proc_job' = [proc_job EXCEPT ![t] = FirstQueued]
    /\ proc_pc' = [proc_pc EXCEPT ![t] = "got"]
    /\ UNCHANGED <<queue, next_id, app_current_job, handled>>
    /\ UNCHANGED <<ctlVars, drvVars, stopVars, initVars, lockVars, uploadVars, callVars, workerVars, histVars, utilVars>>
    /\ SaveQueue

\* process_jobs, thread t: update_status("PLOTTING", job['id']), then
\* execute_job.
ProcUpdateStatusBy(t) ==
    /\ proc_pc[t] = "got"
    /\ app_current_job' = proc_job[t]
    /\ proc_pc' = [proc_pc EXCEPT ![t] = "exec"]
    /\ UNCHANGED <<proc_job, handled>>
    /\ UNCHANGED <<ctlVars, drvVars, stopVars, initVars, lockVars, uploadVars, callVars, workerVars, queueVars, histVars,
                   diskVars, utilVars>>

\* process_jobs, thread t: execute_job returned; complete_job if the result
\* says success, fail_job if not.
ProcReportBy(t, success) ==
    /\ proc_pc[t] = "exec"
    /\ jobs' = IF jobs[proc_job[t]].status = "absent" THEN jobs
               ELSE [jobs EXCEPT ![proc_job[t]].status =
                        IF success THEN "completed" ELSE "failed"]
    /\ queue' = Remove(queue, proc_job[t])
    /\ proc_pc' = [proc_pc EXCEPT ![t] = "report"]
    /\ UNCHANGED <<next_id, handed, app_current_job, proc_job, handled>>
    /\ UNCHANGED <<ctlVars, drvVars, stopVars, initVars, lockVars, uploadVars, callVars, workerVars, histVars, utilVars>>
    /\ IF jobs[proc_job[t]].status = "absent" THEN UNCHANGED diskVars
       ELSE SaveQueue

\* process_jobs, thread t: update_status("IDLE") and the next round of the
\* loop.
ProcIdleBy(t) ==
    /\ proc_pc[t] = "report"
    /\ app_current_job' = NoJob
    /\ proc_job' = [proc_job EXCEPT ![t] = NoJob]
    /\ proc_pc' = [proc_pc EXCEPT ![t] = "idle"]
    /\ UNCHANGED handled
    /\ UNCHANGED <<ctlVars, drvVars, stopVars, initVars, lockVars, uploadVars, callVars, workerVars, queueVars, histVars,
                   diskVars, utilVars>>

\* No process_jobs thread has been started.
InitAppThreads ==
    /\ app_current_job = NoJob
    /\ proc_pc = [t \in Threads |-> "off"]
    /\ proc_job = [t \in Threads |-> NoJob]
    /\ handled = 0

\* A submission handler after its add_job: `if plotter_controller.is_idle():
\* threading.Thread(target=process_jobs, daemon=True).start()`.  The thread
\* started is the lowest one not alive.
SubmitPending == handled < next_id - 1
SubmitStart(t) ==
    /\ SubmitPending
    /\ IsIdle
    /\ proc_pc[t] = "off"
    /\ \A u \in Threads : u < t => proc_pc[u] # "off"
    /\ proc_pc' = [proc_pc EXCEPT ![t] = "idle"]
    /\ handled' = handled + 1
    /\ UNCHANGED <<app_current_job, proc_job>>
    /\ UNCHANGED <<ctlVars, drvVars, stopVars, initVars, lockVars, uploadVars, callVars, workerVars, queueVars, histVars,
                   diskVars, utilVars>>

\* The same handler finding the controller not idle: no thread is started.
SubmitNoStart ==
    /\ SubmitPending
    /\ ~IsIdle
    /\ handled' = handled + 1
    /\ UNCHANGED <<app_current_job, proc_pc, proc_job>>
    /\ UNCHANGED <<ctlVars, drvVars, stopVars, initVars, lockVars, uploadVars, callVars, workerVars, queueVars, histVars,
                   diskVars, utilVars>>

\* process_jobs, thread t: the controller is idle and get_next_job() hands
\* out a job.
ProcTake(t) == IsIdle /\ ProcGetBy(t)

\* process_jobs, thread t: the controller is idle and get_next_job() returns
\* None: `break`, the thread ends.
ProcQuit(t) ==
    /\ proc_pc[t] = "idle"
    /\ IsIdle
    /\ ~HasQueued
    /\ proc_pc' = [proc_pc EXCEPT ![t] = "off"]
    /\ UNCHANGED <<app_current_job, proc_job, handled>>
    /\ UNCHANGED <<ctlVars, drvVars, stopVars, initVars, lockVars, uploadVars, callVars, workerVars, queueVars, histVars,
                   diskVars, utilVars>>

\* process_jobs, thread t: plotter_controller.execute_job(job); the call
\* carries the job's id.  It is admitted, or answered Busy.
ProcCalls(t) == proc_pc[t] = "exec" /\ proc_job[t] \in Jobs
ProcCallAdmitted(t) == ProcCalls(t) /\ ExecAdmit(proc_job[t])
ProcCallBusy(t) == ProcCalls(t) /\ ExecRefuse(proc_job[t])

\* process_jobs, thread t: execute_job has returned; the job is reported
\* according to result['success'].
ProcReportReturned(t) ==
    /\ ProcCalls(t)
    /\ pc[proc_job[t]] = "done"
    /\ ProcReportBy(t, res[proc_job[t]] = "ok")

\* The thread of the runs with one process_jobs thread.
ProcGet == ProcGetBy(1)
ProcUpdateStatus == ProcUpdateStatusBy(1)
ProcReport(success) == ProcReportBy(1, success)
ProcIdle == ProcIdleBy(1)

\* DELETE /jobs/<id>: the handler's test is job_queue.cancel_job(job_id).
DeleteJobAccepts(id) == CancelAccepts(id)

\* DELETE /jobs/<id> answering "Job cancelled": cancel_job succeeded, and
\* stop() is called if app_status names the job as the current one.
DeleteJobOk(id) ==
    /\ DeleteJobAccepts(id)
    /\ jobs' = [jobs EXCEPT ![id].status = "cancelled"]
    /\ queue' = Remove(queue, id)
    /\ IF app_current_job = id /\ StopAccepts
       THEN /\ is_plotting' = FALSE
            /\ is_paused' = FALSE
            /\ current_job' = NoJob
            /\ job_svg' = FALSE
            /\ status' = "IDLE"
            /\ since_stop' = "stopped"
       ELSE UNCHANGED <<is_plotting, is_paused, current_job, job_svg, status,
                        since_stop>>
    /\ UNCHANGED <<nextdraw, output_svg, progress_plob, stats>>
    /\ UNCHANGED <<next_id, handed>>
    /\ UNCHANGED <<drvVars, stopVars, initVars, lockVars, uploadVars, appVars, callVars, workerVars, utilVars>>
    /\ init_failed' = (IF app_current_job = id /\ StopAccepts THEN FALSE
                      ELSE init_failed)
    /\ SaveQueue

\* DELETE /jobs/<id> answering 404 "Job not found or cannot be cancelled".
DeleteJobReject(id) ==
    /\ ~DeleteJobAccepts(id)
    /\ UNCHANGED vars

\* --------------------------------------------------------- chunked uploads

Idx == 0..(MaxChunks - 1)
Data == 1..MaxData
\* A chunk file that does not exist.
NoData == 0
Layers == 0..(MaxLayers - 1)

\* The indices of the session: range(total_chunks).
SessionIdx == {i \in Idx : i < total_chunks}

\* The chunk files of a directory: the indices that have a file.
Stored(tmp) == {i \in Idx : tmp[i] # NoData}

AllUploadedAtLastIndex(tmp) == tmp[total_chunks - 1] # NoData
\* `uploaded_chunks == total_chunks` (`len(chunk_files) == total_chunks`):
\* as many chunk files as the request says the file has.
AllUploaded(tmp) == Cardinality(Stored(tmp)) = total_chunks

\* `for i in range(n): final_file.write(chunk_i.read())`: the bytes written
\* until the loop ends or the open of a missing chunk raises.
RECURSIVE ReadChunks(_, _)
ReadChunks(tmp, n) ==
    IF n = 0 THEN <<>>
    ELSE IF Len(ReadChunks(tmp, n - 1)) < n - 1 \/ tmp[n - 1] = NoData
         THEN ReadChunks(tmp, n - 1)
         ELSE ReadChunks(tmp, n - 1) \o <<tmp[n - 1]>>

\* The uploaded file: its chunks in index order.
OrigFile == [i \in 1..total_chunks |-> orig[i - 1]]

NoChunks == [i \in Idx |-> NoData]

\* A client with a file of total_chunks chunks.
InitSession ==
    /\ total_chunks \in 1..MaxChunks
    /\ orig \in [Idx -> Data]
    /\ \A i \in Idx : i >= total_chunks => orig[i] = 1

\* No upload has reached /plot/chunk yet.
InitEndpoint ==
    /\ ep_dir = FALSE
    /\ ep_tmp = NoChunks
    /\ ep_final = <<>>
    /\ ep_assemblies = 0
    /\ ep_pc = [i \in Idx |-> "new"]

\* /plot/chunk, request with chunk = i and chunk_data = d: temp_dir is made
\* if missing and the chunk file is saved.
EpSave(i, d) ==
    /\ i \in SessionIdx
    /\ ep_pc[i] = "new"
    /\ ep_dir' = TRUE
    /\ ep_tmp' = [ep_tmp EXCEPT ![i] = d]
    /\ ep_pc' = [ep_pc EXCEPT ![i] = "saved"]
    /\ UNCHANGED <<ep_final, ep_assemblies>>
    /\ UNCHANGED <<sessVars, pmVars, svgVars>>
    /\ UNCHANGED <<ctlVars, drvVars, stopVars, initVars, lockVars, callVars, workerVars, queueVars, histVars,
                   appVars,
                   diskVars, utilVars>>

\* /plot/chunk: os.listdir(temp_dir) and the comparison with total_chunks.
\* listdir raises if the directory is gone (500); fewer files than
\* total_chunks answer 200 "chunk_received".
EpCount(i) ==
    /\ ep_pc[i] = "saved"
    /\ ep_pc' = [ep_pc EXCEPT ![i] =
                    IF ~ep_dir THEN "error"
                    ELSE IF AllUploaded(ep_tmp)
                         THEN "assemble"
                         ELSE "received"]
    /\ UNCHANGED <<ep_dir, ep_tmp, ep_final, ep_assemblies>>
    /\ UNCHANGED <<sessVars, pmVars, svgVars>>
    /\ UNCHANGED <<ctlVars, drvVars, stopVars, initVars, lockVars, callVars, workerVars, queueVars, histVars,
                   appVars,
                   diskVars, utilVars>>

\* /plot/chunk: the final file is opened for writing and the chunks are
\* read into it in index order; a missing chunk raises (500) and leaves the
\* file with what was written.
EpAssemble(i) ==
    /\ ep_pc[i] = "assemble"
    /\ ep_final' = ReadChunks(ep_tmp, total_chunks)
    /\ ep_assemblies' = ep_assemblies + 1
    /\ ep_pc' = [ep_pc EXCEPT ![i] =
                    IF Len(ReadChunks(ep_tmp, total_chunks)) = total_chunks
                    THEN "rmtree" ELSE "error"]
    /\ UNCHANGED <<ep_dir, ep_tmp>>
    /\ UNCHANGED <<sessVars, pmVars, svgVars>>
    /\ UNCHANGED <<ctlVars, drvVars, stopVars, initVars, lockVars, callVars, workerVars, queueVars, histVars,
                   appVars,
                   diskVars, utilVars>>

\* /plot/chunk: the same with the open or the read of the stored chunk k
\* raising (500): the chunks before k have been written; no chunk file is
\* removed before shutil.rmtree.  The disk fails MaxFaults times at most.
EpAssembleReadFails(i, k) ==
    /\ ep_pc[i] = "assemble"
    /\ ep_assemblies < MaxFaults
    /\ k \in SessionIdx
    /\ ep_tmp[k] # NoData
    /\ ep_final' = ReadChunks(ep_tmp, k)
    /\ ep_assemblies' = ep_assemblies + 1
    /\ ep_pc' = [ep_pc EXCEPT ![i] = "error"]
    /\ UNCHANGED <<ep_dir, ep_tmp>>
    /\ UNCHANGED <<sessVars, pmVars, svgVars>>
    /\ UNCHANGED <<ctlVars, drvVars, stopVars, initVars, lockVars, callVars, workerVars, queueVars, histVars,
                   appVars,
                   diskVars, utilVars>>

\* /plot/chunk: shutil.rmtree(temp_dir); it raises (500) if the directory
\* is gone.
EpRmtree(i) ==
    /\ ep_pc[i] = "rmtree"
    /\ ep_dir' = FALSE
    /\ ep_tmp' = NoChunks
    /\ ep_pc' = [ep_pc EXCEPT ![i] = IF ep_dir THEN "job" ELSE "error"]
    /\ UNCHANGED <<ep_final, ep_assemblies>>
    /\ UNCHANGED <<sessVars, pmVars, svgVars>>
    /\ UNCHANGED <<ctlVars, drvVars, stopVars, initVars, lockVars, callVars, workerVars, queueVars, histVars,
                   appVars,
                   diskVars, utilVars>>

\* /plot/chunk: job_queue.add_job for the assembled file (priority 1, the
\* form's default) and the answer 201 "File assembled and job created".
EpAddJob(i) ==
    /\ ep_pc[i] = "job"
    /\ next_id <= MaxQJobs
    /\ jobs' = [jobs EXCEPT ![next_id] =
                   [status |-> "queued", priority |-> 1, started_at |-> FALSE]]
    /\ queue' = InsertAt(queue, InsertIndex(queue, 1), next_id)
    /\ next_id' = next_id + 1
    /\ ep_pc' = [ep_pc EXCEPT ![i] = "created"]
    /\ UNCHANGED <<ep_dir, ep_tmp, ep_final, ep_assemblies, handed>>
    /\ UNCHANGED <<sessVars, pmVars, svgVars>>
    /\ UNCHANGED <<ctlVars, drvVars, stopVars, initVars, lockVars, callVars, workerVars, histVars, appVars, utilVars>>
    /\ SaveQueue

\* No /plot/chunk request is between its first and its last step.
EpQuiet == \A i \in Idx : ep_pc[i] \in {"new", "received", "created", "error"}

\* upload_large_file.py's retry loop: a further request for a chunk index
\* whose earlier request has been answered without completing the upload.
EpRetry(i) ==
    /\ ep_pc[i] \in {"received", "error"}
    /\ ep_pc' = [ep_pc EXCEPT ![i] = "new"]
    /\ UNCHANGED <<ep_dir, ep_tmp, ep_final, ep_assemblies>>
    /\ UNCHANGED <<sessVars, pmVars, svgVars>>
    /\ UNCHANGED <<ctlVars, drvVars, stopVars, initVars, lockVars, callVars, workerVars, queueVars, histVars,
                   appVars,
                   diskVars, utilVars>>

\* `int((chunk_number + 1) / total_chunks * 100)`; for the totals of the
\* model the float expression has the value of the integer one.
ProgressOf(i) == ((i + 1) * 100) \div total_chunks

\* ----------------------------------------------------------- ProjectManager

\* A layer id that current_project['layers'] does not have.
NoLayer == [status |-> "absent", progress |-> 0]

\* ProjectManager.__init__
InitProjectManager ==
    /\ pm_project = FALSE
    /\ pm_total_layers = 0
    /\ pm_status = "none"
    /\ pm_uploaded = 0
    /\ pm_layers = [l \in Layers |-> NoLayer]
    /\ pm_tmp = [l \in Layers |-> NoChunks]
    /\ pm_file = [l \in Layers |-> <<>>]
    /\ pm_replaced = "nothing"

\* The project directory holds a layer file or a chunk file.
ProjectHasFiles ==
    \E l \in Layers : pm_file[l] # <<>> \/ pm_tmp[l] # NoChunks

\* What create_project finds when it is called.
Replaced ==
    IF ~pm_project THEN "nothing"
    ELSE IF ProjectHasFiles THEN "files" ELSE "project"

CreateProjectKeepsFiles(n) ==
    /\ pm_project' = TRUE
    /\ pm_total_layers' = n
    /\ pm_status' = "created"
    /\ pm_uploaded' = 0
    /\ pm_layers' = [l \in Layers |->
                        IF l < n THEN [status |-> "not_started", progress |-> 0]
                        ELSE NoLayer]
    /\ pm_replaced' = Replaced
    /\ UNCHANGED <<pm_tmp, pm_file>>
    /\ UNCHANGED <<sessVars, epVars, svgVars>>
    /\ UNCHANGED <<ctlVars, drvVars, stopVars, initVars, lockVars, callVars, workerVars, queueVars, histVars,
                   appVars,
                   diskVars, utilVars>>
\* create_project with total_layers = n: _clear_project removes the current
\* project, if any, with its directory (layers/ and temp/ in it); the new
\* project has an empty directory and n layers not_started.
CreateProject(n) ==
    /\ pm_project' = TRUE
    /\ pm_total_layers' = n
    /\ pm_status' = "created"
    /\ pm_uploaded' = 0
    /\ pm_layers' = [l \in Layers |->
                        IF l < n THEN [status |-> "not_started", progress |-> 0]
                        ELSE NoLayer]
    /\ pm_tmp' = [l \in Layers |-> NoChunks]
    /\ pm_file' = [l \in Layers |-> <<>>]
    /\ pm_replaced' = Replaced
    /\ UNCHANGED <<sessVars, epVars, svgVars>>
    /\ UNCHANGED <<ctlVars, drvVars, stopVars, initVars, lockVars, callVars, workerVars, queueVars, histVars,
                   appVars,
                   diskVars, utilVars>>

\* The tests at the head of upload_layer and upload_layer_chunked: there is
\* a project and it has the layer.
ValidLayer(l) == pm_project /\ pm_layers[l].status # "absent"

\* `sum(1 for l in layers.values() if l['status'] == 'complete')`
CompleteCount(layers) ==
    Cardinality({l \in Layers : layers[l].status = "complete"})

\* upload_layer(layer_id, file_data, filename), the file written.
UploadLayer(l, file) ==
    /\ ValidLayer(l)
    /\ LET layers1 == [pm_layers EXCEPT
                          ![l] = [status |-> "complete", progress |-> 100]]
       IN /\ pm_layers' = layers1
          /\ pm_uploaded' = CompleteCount(layers1)
          /\ pm_status' = IF CompleteCount(layers1) = pm_total_layers
                          THEN "ready" ELSE "uploading"
    /\ pm_file' = [pm_file EXCEPT ![l] = file]
    /\ UNCHANGED <<pm_project, pm_total_layers, pm_tmp, pm_replaced>>
    /\ UNCHANGED <<sessVars, epVars, svgVars>>
    /\ UNCHANGED <<ctlVars, drvVars, stopVars, initVars, lockVars, callVars, workerVars, queueVars, histVars,
                   appVars,
                   diskVars, utilVars>>

\* upload_layer, the write of the file raising: the statuses were set to
\* uploading before it, and the handler marks the layer as in error.
UploadLayerWriteFails(l) ==
    /\ ValidLayer(l)
    /\ pm_layers' = [pm_layers EXCEPT ![l].status = "error"]
    /\ pm_status' = "uploading"
    /\ UNCHANGED <<pm_project, pm_total_layers, pm_uploaded, pm_tmp, pm_file,
                   pm_replaced>>
    /\ UNCHANGED <<sessVars, epVars, svgVars>>
    /\ UNCHANGED <<ctlVars, drvVars, stopVars, initVars, lockVars, callVars, workerVars, queueVars, histVars,
                   appVars,
                   diskVars, utilVars>>

\* upload_layer or upload_layer_chunked raising "No active project" or
\* "Invalid layer ID"; the handler finds no layer to mark.
UploadInvalid(l) ==
    /\ ~ValidLayer(l)
    /\ UNCHANGED vars

\* upload_layer_chunked(layer_id, chunk_data, chunk_info) with
\* chunk_number = i and chunk_data = d (file_id is the layer id): the chunk
\* is saved, the progress set, the chunk files counted and, if there are
\* total_chunks of them, read into the layer file and removed.
UploadLayerChunked(l, i, d) ==
    /\ ValidLayer(l)
    /\ i \in SessionIdx
    /\ LET tmp1 == [pm_tmp[l] EXCEPT ![i] = d]
           complete == AllUploaded(tmp1)
           layer1 == IF complete
                     THEN [status |-> "complete", progress |-> 100]
                     ELSE [status |-> IF i = 0 THEN "uploading"
                                      ELSE pm_layers[l].status,
                           progress |-> ProgressOf(i)]
           layers1 == [pm_layers EXCEPT ![l] = layer1]
       IN /\ pm_tmp' = [pm_tmp EXCEPT ![l] = IF complete THEN NoChunks ELSE tmp1]
          /\ pm_file' = [pm_file EXCEPT ![l] =
                            IF complete THEN ReadChunks(tmp1, total_chunks)
                            ELSE @]
          /\ pm_layers' = layers1
          /\ pm_uploaded' = IF complete THEN CompleteCount(layers1)
                            ELSE pm_uploaded
          /\ pm_status' = IF complete /\ CompleteCount(layers1) = pm_total_layers
                          THEN "ready"
                          ELSE IF i = 0 THEN "uploading" ELSE pm_status
    /\ UNCHANGED <<pm_project, pm_total_layers, pm_replaced>>
    /\ UNCHANGED <<sessVars, epVars, svgVars>>
    /\ UNCHANGED <<ctlVars, drvVars, stopVars, initVars, lockVars, callVars, workerVars, queueVars, histVars,
                   appVars,
                   diskVars, utilVars>>

\* upload_layer_chunked, the write of the chunk raising: for chunk 0 the
\* statuses were set to uploading before it; the handler marks the layer
\* as in error.
UploadLayerChunkedWriteFails(l, i) ==
    /\ ValidLayer(l)
    /\ i \in SessionIdx
    /\ pm_layers' = [pm_layers EXCEPT ![l].status = "error"]
    /\ pm_status' = IF i = 0 THEN "uploading" ELSE pm_status
    /\ UNCHANGED <<pm_project, pm_total_layers, pm_uploaded, pm_tmp, pm_file,
                   pm_replaced>>
    /\ UNCHANGED <<sessVars, epVars, svgVars>>
    /\ UNCHANGED <<ctlVars, drvVars, stopVars, initVars, lockVars, callVars, workerVars, queueVars, histVars,
                   appVars,
                   diskVars, utilVars>>

\* upload_layer_chunked, reassembly with the open or the read of chunk k
\* raising: the chunks before k have been written to the layer file and
\* removed one by one (`os.remove(chunk_path)` inside the loop); the handler
\* marks the layer as in error.
UploadLayerChunkedReadFails(l, i, d, k) ==
    /\ ValidLayer(l)
    /\ i \in SessionIdx
    /\ k \in SessionIdx
    /\ LET tmp1 == [pm_tmp[l] EXCEPT ![i] = d]
       IN /\ AllUploaded(tmp1)
          /\ pm_tmp' = [pm_tmp EXCEPT ![l] =
                           [j \in Idx |-> IF j < k THEN NoData ELSE tmp1[j]]]
          /\ pm_file' = [pm_file EXCEPT ![l] = ReadChunks(tmp1, k)]
          /\ pm_layers' = [pm_layers EXCEPT ![l] =
                              [status |-> "error", progress |-> ProgressOf(i)]]
          /\ pm_status' = IF i = 0 THEN "uploading" ELSE pm_status
    /\ UNCHANGED <<pm_project, pm_total_layers, pm_uploaded, pm_replaced>>
    /\ UNCHANGED <<sessVars, epVars, svgVars>>
    /\ UNCHANGED <<ctlVars, drvVars, stopVars, initVars, lockVars, callVars, workerVars, queueVars, histVars,
                   appVars,
                   diskVars, utilVars>>

\* --------------------------------------------------------------- SVGManager

\* SVGManager.__init__
InitSvgManager ==
    /\ svg_cur = FALSE
    /\ svg_uploading = FALSE
    /\ svg_progress = 0
    /\ svg_tmp = NoChunks
    /\ svg_file = <<>>
    /\ svg_sent = {}

\* upload_svg_chunked's test after the chunk-0 block: chunk 0 always opens
\* a session; any other chunk needs a current SVG that is uploading.
SvgHasSession(i) == i = 0 \/ (svg_cur /\ svg_uploading)

\* upload_svg_chunked(chunk_data, chunk_info) with chunk_number = i and
\* chunk_data = d.  Chunk 0 clears the current SVG with its directory and
\* starts a new one; then the chunk is saved, the progress set, the chunk
\* files counted and, if there are total_chunks of them, read into the SVG
\* file and removed.  `sent` is what the client has sent after the call.
UploadSvgChunkedAs(i, d, sent) ==
    /\ svg_sent' = sent
    /\ i \in SessionIdx
    /\ SvgHasSession(i)
    /\ LET tmp0 == IF i = 0 THEN NoChunks ELSE svg_tmp
           tmp1 == [tmp0 EXCEPT ![i] = d]
           complete == AllUploaded(tmp1)
       IN /\ svg_tmp' = IF complete THEN NoChunks ELSE tmp1
          /\ svg_file' = IF complete THEN ReadChunks(tmp1, total_chunks)
                         ELSE IF i = 0 THEN <<>> ELSE svg_file
          /\ svg_progress' = IF complete THEN 100 ELSE ProgressOf(i)
          /\ svg_uploading' = ~complete
    /\ svg_cur' = TRUE
    /\ UNCHANGED <<sessVars, epVars, pmVars>>
    /\ UNCHANGED <<ctlVars, drvVars, stopVars, initVars, lockVars, callVars, workerVars, queueVars, histVars,
                   appVars,
                   diskVars, utilVars>>

UploadSvgChunked(i, d) == UploadSvgChunkedAs(i, d, svg_sent)

\* upload_svg_chunked raising "No active upload session".
UploadSvgNoSessionAs(i, sent) ==
    /\ i \in SessionIdx
    /\ ~SvgHasSession(i)
    /\ svg_sent' = sent
    /\ UNCHANGED <<svg_cur, svg_uploading, svg_progress, svg_tmp, svg_file>>
    /\ UNCHANGED <<sessVars, epVars, pmVars>>
    /\ UNCHANGED <<ctlVars, drvVars, stopVars, initVars, lockVars, callVars, workerVars, queueVars, histVars,
                   appVars,
                   diskVars, utilVars>>

UploadSvgNoSession(i) == UploadSvgNoSessionAs(i, svg_sent)

InitUpload == InitSession /\ InitEndpoint /\ InitProjectManager /\ InitSvgManager

\* Start-up states: the server's objects as constructed (the controller
\* never initialized), the same after a successful initialize(), and the
\* queue with a controller that takes no part.
\* Where the uploads take no part, the session is a one-chunk file.
NoUpload ==
    /\ InitUpload
    /\ total_chunks = 1
    /\ orig = [i \in Idx |-> 1]

InitFresh == InitController /\ InitDriver /\ InitQueue /\ InitApp /\ NoUpload
InitIdle == InitIdleController /\ InitDriver /\ InitQueue /\ InitApp /\ NoUpload
InitQueueOnly ==
    InitController /\ hasPlob = FALSE /\ InitQueue /\ InitApp /\ NoUpload
InitJobsApi ==
    InitIdleController /\ hasPlob = FALSE /\ InitQueue /\ InitApp /\ NoUpload
\* An initialized controller, an empty queue, no process_jobs thread.
InitDispatch ==
    InitIdleController /\ InitDriver /\ InitQueue /\ InitAppThreads /\ NoUpload
\* The job queue on a disk that may fail.
InitPersist ==
    /\ InitController
    /\ hasPlob = FALSE
    /\ InitQueueFaulty
    /\ InitApp
    /\ NoUpload
\* The upload receivers, with an idle controller that takes no part.
InitUploads ==
    InitIdleController /\ hasPlob = FALSE /\ InitQueue /\ InitApp /\ InitUpload

\* A file delivered to /plot/chunk and to upload_layer_chunked one request
\* at a time, each chunk once, in any order.  The two receivers share no
\* state: the client uploads to the endpoint first, if it does, and to the
\* project afterwards.
EpSendOnce(i) == EpQuiet /\ ~pm_project /\ EpSave(i, orig[i])
\* The client of the project uploads one layer file after the other.
LayerSendOnce(l, i) ==
    /\ pm_layers[l].status # "complete"
    /\ \A l2 \in Layers \ {l} : pm_tmp[l2] = NoChunks
    /\ pm_tmp[l][i] = NoData
    /\ UploadLayerChunked(l, i, orig[i])
CreateFirstProject(n) ==
    /\ ~pm_project
    /\ \/ \A i \in SessionIdx : ep_pc[i] = "new"
       \/ \A i \in SessionIdx : ep_pc[i] \in {"received", "created"}
    /\ CreateProject(n)

NextChunkSeq ==
    \/ \E n \in 1..MaxLayers : CreateFirstProject(n)
    \/ \E i \in Idx : EpSendOnce(i)
    \/ \E i \in Idx : EpCount(i)
    \/ \E i \in Idx : EpAssemble(i)
    \/ \E i \in Idx : EpRmtree(i)
    \/ \E i \in Idx : EpAddJob(i)
    \/ \E l \in Layers, i \in Idx : LayerSendOnce(l, i)

SpecChunkSeq == InitUploads /\ [][NextChunkSeq]_vars

\* The requests of one upload to /plot/chunk, one per chunk, served
\* concurrently: the handler takes no lock, so its steps interleave.
EpSend(i) == EpSave(i, orig[i])

NextChunkConc ==
    \/ \E i \in Idx : EpSend(i)
    \/ \E i \in Idx : EpCount(i)
    \/ \E i \in Idx : EpAssemble(i)
    \/ \E i \in Idx : EpRmtree(i)
    \/ \E i \in Idx : EpAddJob(i)

SpecChunkConc == InitUploads /\ [][NextChunkConc]_vars

\* Uploads in which chunks are sent again, with any bytes, one request at
\* a time.  The three receivers share no state; a run uses one of them.
EpUnused == \A i \in Idx : ep_pc[i] = "new"
EpSendAny(i, d) == EpQuiet /\ ~pm_project /\ ~svg_cur /\ EpSave(i, d)
CreateOnlyProject(n) == ~pm_project /\ EpUnused /\ ~svg_cur /\ CreateProject(n)
LayerSendAny(l, i, d) ==
    /\ \A l2 \in Layers \ {l} : pm_tmp[l2] = NoChunks
    /\ UploadLayerChunked(l, i, d)
SvgSendAny(i, d) == EpUnused /\ ~pm_project /\ UploadSvgChunked(i, d)
SvgSendNoSession(i) == EpUnused /\ ~pm_project /\ UploadSvgNoSession(i)

\* The bytes of the file play no part where any bytes may be sent.
InitResend == InitUploads /\ orig = [i \in Idx |-> 1]

NextChunkResend ==
    \/ \E i \in Idx, d \in Data : EpSendAny(i, d)
    \/ \E i \in Idx : EpCount(i)
    \/ \E i \in Idx : EpAssemble(i)
    \/ \E i \in Idx : EpRmtree(i)
    \/ \E i \in Idx : EpAddJob(i)
    \/ \E i \in Idx : EpRetry(i)
    \/ \E n \in 1..MaxLayers : CreateOnlyProject(n)
    \/ \E l \in Layers, i \in Idx, d \in Data : LayerSendAny(l, i, d)
    \/ \E i \in Idx, d \in Data : SvgSendAny(i, d)
    \/ \E i \in Idx : SvgSendNoSession(i)

SpecChunkResend == InitResend /\ [][NextChunkResend]_vars

\* Any sequence of ProjectManager calls, successful or failing; chunks may
\* be sent again, also after their layer is complete.
LayerSend(l, i) ==
    /\ \A l2 \in Layers \ {l} : pm_tmp[l2] = NoChunks
    /\ UploadLayerChunked(l, i, orig[i])

NextProject ==
    \/ \E n \in 1..MaxLayers : CreateProject(n)
    \/ \E l \in Layers : UploadLayer(l, OrigFile)
    \/ \E l \in Layers : UploadLayerWriteFails(l)
    \/ \E l \in Layers : UploadInvalid(l)
    \/ \E l \in Layers, i \in Idx : LayerSend(l, i)
    \/ \E l \in Layers, i \in Idx : UploadLayerChunkedWriteFails(l, i)

SpecProject == InitResend /\ [][NextProject]_vars

\* A file delivered to upload_svg_chunked one request at a time, each chunk
\* once, in any order; a request is answered with the progress or with the
\* error "No active upload session".
SvgSendOnce(i) ==
    /\ i \notin svg_sent
    /\ UploadSvgChunkedAs(i, orig[i], svg_sent \cup {i})
SvgSendOnceNoSession(i) ==
    /\ i \notin svg_sent
    /\ UploadSvgNoSessionAs(i, svg_sent \cup {i})

NextSvgOnce ==
    \/ \E i \in Idx : SvgSendOnce(i)
    \/ \E i \in Idx : SvgSendOnceNoSession(i)

SpecSvgOnce == InitUploads /\ [][NextSvgOnce]_vars

\* Uploads on a disk whose chunk files may be unreadable when they are
\* reassembled; the client sends again what was answered with an error.
LayerReadFails(l, i, k) ==
    /\ \A l2 \in Layers \ {l} : pm_tmp[l2] = NoChunks
    /\ UploadLayerChunkedReadFails(l, i, orig[i], k)

NextUnreadable ==
    \/ \E i \in Idx : EpSendOnce(i)
    \/ \E i \in Idx : EpCount(i)
    \/ \E i \in Idx : EpAssemble(i)
    \/ \E i \in Idx, k \in Idx : EpAssembleReadFails(i, k)
    \/ \E i \in Idx : EpRmtree(i)
    \/ \E i \in Idx : EpAddJob(i)
    \/ \E i \in Idx : EpRetry(i)
    \/ \E n \in 1..MaxLayers : CreateOnlyProject(n)
    \/ \E l \in Layers, i \in Idx : LayerSend(l, i)
    \/ \E l \in Layers, i \in Idx, k \in Idx : LayerReadFails(l, i, k)

SpecUnreadable == InitResend /\ [][NextUnreadable]_vars

NextQueue ==
    \/ \E p \in Prios : AddJob(p)
    \/ GetNextJob
    \/ GetNextNone
    \/ \E id \in QIds : CompleteJob(id)
    \/ \E id \in QIds : FailJob(id)
    \/ \E id \in QIds : CancelJob(id)
    \/ \E id \in QIds : CancelReject(id)
    \/ \E id \in QIds : \E pos \in 0..(MaxQJobs + 1) : ReorderJob(id, pos)
    \/ \E id \in QIds : ReorderReject(id)
    \/ ClearQueue
    \/ \E old \in SUBSET QIds : CleanupOldJobs(old)

\* The job queue as constructed, under every sequence of its operations
\* (each runs under self.lock, so calls from different threads serialize).
SpecQueue == InitQueueOnly /\ [][NextQueue]_vars

\* Every sequence of the operations, with complete_job and fail_job called
\* for any id by any caller; the jobs have the default priority.
NextQueueAny ==
    \/ AddJob(1)
    \/ GetNextJob
    \/ GetNextNone
    \/ \E id \in QIds : CancelJob(id)
    \/ \E id \in QIds : CancelReject(id)
    \/ \E id \in QIds : \E pos \in 0..(MaxQJobs + 1) : ReorderJob(id, pos)
    \/ \E id \in QIds : ReorderReject(id)
    \/ ClearQueue
    \/ \E old \in SUBSET QIds : CleanupOldJobs(old)
    \/ \E id \in QIds : CompleteKnownJob(id)
    \/ \E id \in QIds : FailKnownJob(id)
    \/ \E id \in QIds : FinishUnknownJob(id)

SpecQueueAny == InitQueueOnly /\ [][NextQueueAny]_vars

\* reorder_job on queues that hold queued, running and finished jobs.
NextReorder ==
    \/ \E p \in Prios : AddJob(p)
    \/ GetNextJob
    \/ \E id \in QIds : CompleteJob(id)
    \/ \E id \in QIds : \E pos \in 0..(MaxQJobs + 1) : ReorderJob(id, pos)
    \/ \E id \in QIds : ReorderReject(id)

SpecReorder == InitQueueOnly /\ [][NextReorder]_vars

\* The job queue with max_queue_size = QueueCap, under every sequence of
\* its operations.
NextCapacity ==
    \/ \E p \in Prios : AddJobWithin(p, QueueCap)
    \/ AddJobFull(QueueCap)
    \/ GetNextJob
    \/ GetNextNone
    \/ \E id \in QIds : CompleteJob(id)
    \/ \E id \in QIds : FailJob(id)
    \/ \E id \in QIds : CancelJob(id)
    \/ \E id \in QIds : CancelReject(id)
    \/ \E id \in QIds : \E pos \in 0..(MaxQJobs + 1) : ReorderJob(id, pos)
    \/ \E id \in QIds : ReorderReject(id)
    \/ ClearQueue
    \/ \E old \in SUBSET QIds : CleanupOldJobs(old)

SpecCapacity == InitQueueOnly /\ [][NextCapacity]_vars

\* The job queue and its file, under every sequence of its operations and
\* up to MaxFaults failing file operations.
NextPersist ==
    \/ \E p \in Prios : AddJob(p)
    \/ GetNextJob
    \/ GetNextNone
    \/ \E id \in QIds : CompleteJob(id)
    \/ \E id \in QIds : FailJob(id)
    \/ \E id \in QIds : CancelJob(id)
    \/ \E id \in QIds : CancelReject(id)
    \/ \E id \in QIds : \E pos \in 0..(MaxQJobs + 1) : ReorderJob(id, pos)
    \/ \E id \in QIds : ReorderReject(id)
    \/ ClearQueue
    \/ \E old \in SUBSET QIds : CleanupOldJobs(old)
    \/ \E id \in QIds, changes \in BOOLEAN : UpdateJobProgress(id, changes)

SpecPersist == InitPersist /\ [][NextPersist]_vars

\* A sequence of add_job calls on an empty queue, followed by successive
\* get_next_job calls; as in process_jobs, each job handed out is reported
\* completed or failed at some point.
NextFifo ==
    \/ ((\A i \in QIds : handed[i] = 0) /\ \E p \in Prios : AddJob(p))
    \/ GetNextJob
    \/ GetNextNone
    \/ \E id \in QIds : CompleteJob(id)
    \/ \E id \in QIds : FailJob(id)

SpecFifo == InitQueueOnly /\ [][NextFifo]_vars

\* The job endpoints of app.py with one process_jobs thread: submissions,
\* the dispatcher's rounds, and DELETE /jobs/<id>.
NextJobsApi ==
    \/ \E p \in Prios : AddJob(p)
    \/ ProcGet
    \/ ProcUpdateStatus
    \/ \E success \in BOOLEAN : ProcReport(success)
    \/ ProcIdle
    \/ \E id \in QIds : DeleteJobOk(id)
    \/ \E id \in QIds : DeleteJobReject(id)

SpecJobsApi == InitJobsApi /\ [][NextJobsApi]_vars

NextControllerCalls ==
    \/ InitializeOk
    \/ \E j \in CtlJobs : ExecAccept(j)
    \/ \E j \in CtlJobs : ExecBusy(j)
    \/ \E j \in CtlJobs : \E src \in {"ok", "nosvg", "raise"} : ExecSetup(j, src)
    \/ \E j \in CtlJobs : ExecDrawReturn(j)
    \/ \E j \in CtlJobs : ExecDrawRaise(j)
    \/ \E j \in CtlJobs : ExecFinally(j)
    \/ PauseOk
    \/ PauseReject
    \/ \E w \in Workers : ResumeOk(w)
    \/ ResumeRaise
    \/ ResumeRejectNotPaused
    \/ ResumeRejectNoData
    \/ \E w \in Workers : ResumeRun(w)
    \/ \E w \in Workers : ResumeDrawReturn(w)
    \/ \E w \in Workers : ResumeDrawRaise(w)
    \/ \E w \in Workers : ResumeFinish(w)
    \/ \E w \in Workers : ResumeFinishError(w)
    \/ StopOk
    \/ StopReject

NextController ==
    \/ InitializeFail
    \/ NextControllerCalls

\* The controller as constructed, under every interleaving of its operations.
SpecController == InitFresh /\ [][NextController]_vars

\* The same with the failing initialize() taken assignment by assignment.
NextInitialize ==
    \/ InitializeConnectFails
    \/ InitializeHandler
    \/ NextController

SpecInitialize == InitFresh /\ [][NextInitialize]_vars

NextInitError ==
    \/ InitializeFailNoted
    \/ NextControllerCalls

\* The same, keeping track of a failed initialize().
SpecInitError == InitFresh /\ [][NextInitError]_vars

\* The calls that may be waiting at a `with self.lock:`: an execute_job
\* call at its first block or at its finally block, a resume_thread at its
\* last block, and the calls of clients at any time (resume() as long as
\* there is a worker left for it to start).
LockCalls ==
    {ExecCall(j) : j \in CtlJobs} \cup {WorkerCall(w) : w \in Workers}
        \cup {PauseCall, ResumeCall, StopCall}
AtLock(c) ==
    CASE c[1] = "execute_job" -> NextCall(c[2]) \/ pc[c[2]] = "fin"
      [] c[1] = "resume_thread" -> rpc[c[2]] \in {"fin", "err"}
      [] c[1] = "resume" -> \E w \in Workers : rpc[w] = "new"
      [] OTHER -> TRUE

\* `with self.lock:` entered: the call holds the lock until its block ends.
LockTake(c) ==
    /\ lock = NoHolder
    /\ AtLock(c)
    /\ lock' = c
    /\ UNCHANGED progVars

\* The blocks that run under the lock.
LockedBlocks ==
    \/ \E j \in CtlJobs : ExecAccept(j)
    \/ \E j \in CtlJobs : ExecBusy(j)
    \/ \E j \in CtlJobs : ExecFinally(j)
    \/ PauseOk
    \/ PauseReject
    \/ \E w \in Workers : ResumeOk(w)
    \/ ResumeRejectNotPaused
    \/ ResumeRejectNoData
    \/ \E w \in Workers : ResumeFinish(w)
    \/ \E w \in Workers : ResumeFinishError(w)
    \/ StopOk
    \/ StopReject
\* The steps that run outside it: set-up and plot_run of execute_job, and
\* plot_run of the resume_thread.
UnlockedSteps ==
    \/ \E j \in CtlJobs : ExecSetup(j, "ok")
    \/ \E j \in CtlJobs : ExecDrawReturn(j)
    \/ \E w \in Workers : ResumeRun(w)
    \/ \E w \in Workers : ResumeDrawReturn(w)
    \/ \E w \in Workers : ResumeDrawRaise(w)

NextLock ==
    \/ \E c \in LockCalls : LockTake(c)
    \/ LockedBlocks
    \/ UnlockedSteps

\* The initialized controller with the taking of its lock as a step of its
\* own.
SpecLock == InitIdle /\ [][NextLock]_vars

NextUtility ==
    \/ NextController
    \/ \E cmd \in UtilityCommands : UtilityReject(cmd)
    \/ \E cmd \in PlainUtilities : UtilityRun(cmd)
    \/ \E j \in CtlJobs : UtilityBullseye(j)
    \/ UtilityBullseyeNoConfig
    \/ UtilityBullseyeReturn

\* process_jobs with the controller it drives: jobs of one priority are
\* taken in the order of their ids, each has drawable SVG content, and the
\* driver does not fail.  A client may pause the plotter once, before any
\* resume, and resume it.
AddPlainJob == AddJob(1)
ProcGetIdle == IsIdle /\ ProcGet
ProcExecute ==
    /\ proc_job[1] \in Jobs
    /\ proc_pc[1] = "exec"
    /\ ExecAccept(proc_job[1])
ProcReportResult ==
    /\ proc_job[1] \in Jobs
    /\ pc[proc_job[1]] = "done"
    /\ ProcReport(res[proc_job[1]] = "ok")
PauseOnce == (\A w \in Workers : rpc[w] = "new") /\ PauseOk

NextPausedRun ==
    \/ AddPlainJob
    \/ ProcGetIdle
    \/ ProcUpdateStatus
    \/ ProcExecute
    \/ \E j \in Jobs : ExecSetup(j, "ok")
    \/ \E j \in Jobs : ExecDrawReturn(j)
    \/ \E j \in Jobs : ExecFinally(j)
    \/ ProcReportResult
    \/ ProcIdle
    \/ PauseOnce
    \/ \E w \in Workers : ResumeOk(w)
    \/ \E w \in Workers : ResumeRun(w)
    \/ \E w \in Workers : ResumeDrawReturn(w)
    \/ \E w \in Workers : ResumeFinish(w)

SpecPausedRun == InitFresh /\ [][NextPausedRun]_vars

\* The same run on an initialized controller with a driver whose draw calls
\* may raise, under fair scheduling: the process_jobs thread, execute_job
\* and the resume worker keep taking their steps, every draw call returns
\* or raises, and a resume() is issued for a paused job that can be resumed.
\* Submissions and pause() are up to the clients.
NextQueuedRun ==
    \/ NextPausedRun
    \/ \E j \in Jobs : ExecDrawRaise(j)
    \/ \E w \in Workers : ResumeDrawRaise(w)
    \/ \E w \in Workers : ResumeFinishError(w)

ThreadSteps ==
    \/ ProcGetIdle
    \/ ProcUpdateStatus
    \/ ProcExecute
    \/ ProcReportResult
    \/ ProcIdle
CallSteps ==
    \/ \E j \in Jobs : ExecSetup(j, "ok")
    \/ \E j \in Jobs : ExecFinally(j)
DrawEnds ==
    \/ \E j \in Jobs : ExecDrawReturn(j)
    \/ \E j \in Jobs : ExecDrawRaise(j)
WorkerSteps ==
    \/ \E w \in Workers : ResumeRun(w)
    \/ \E w \in Workers : ResumeDrawReturn(w)
    \/ \E w \in Workers : ResumeDrawRaise(w)
    \/ \E w \in Workers : ResumeFinish(w)
    \/ \E w \in Workers : ResumeFinishError(w)
ResumeIssued == \E w \in Workers : ResumeOk(w)

FairScheduling ==
    /\ WF_vars(ThreadSteps)
    /\ WF_vars(CallSteps)
    /\ WF_vars(DrawEnds)
    /\ WF_vars(WorkerSteps)
    /\ WF_vars(ResumeIssued)

SpecQueuedRun == InitIdle /\ [][NextQueuedRun]_vars /\ FairScheduling

\* The queued dispatcher: submissions start process_jobs threads, which
\* hand the queue's jobs to execute_job.  Every job has drawable SVG and the
\* driver does not fail.
NextDispatch ==
    \/ \E p \in Prios : AddJob(p)
    \/ \E t \in Threads : SubmitStart(t)
    \/ SubmitNoStart
    \/ \E t \in Threads : ProcTake(t)
    \/ \E t \in Threads : ProcQuit(t)
    \/ \E t \in Threads : ProcUpdateStatusBy(t)
    \/ \E t \in Threads : ProcCallAdmitted(t)
    \/ \E t \in Threads : ProcCallBusy(t)
    \/ \E j \in Jobs : ExecSetup(j, "ok")
    \/ \E j \in Jobs : ExecDrawReturn(j)
    \/ \E j \in Jobs : ExecFinally(j)
    \/ \E t \in Threads : ProcReportReturned(t)
    \/ \E t \in Threads : ProcIdleBy(t)

SpecDispatch == InitDispatch /\ [][NextDispatch]_vars

\* The queued dispatcher with the calls of clients on the jobs: DELETE
\* /jobs/<id> (cancel_job) and stop().  The jobs have the default priority.
NextJobCalls ==
    \/ AddPlainJob
    \/ \E t \in Threads : SubmitStart(t)
    \/ SubmitNoStart
    \/ \E t \in Threads : ProcTake(t)
    \/ \E t \in Threads : ProcQuit(t)
    \/ \E t \in Threads : ProcUpdateStatusBy(t)
    \/ \E t \in Threads : ProcCallAdmitted(t)
    \/ \E t \in Threads : ProcCallBusy(t)
    \/ \E j \in Jobs : ExecSetup(j, "ok")
    \/ \E j \in Jobs : ExecDrawReturn(j)
    \/ \E j \in Jobs : ExecFinally(j)
    \/ \E t \in Threads : ProcReportReturned(t)
    \/ \E t \in Threads : ProcIdleBy(t)
    \/ \E id \in QIds : CancelJob(id)
    \/ StopOkNoted

SpecJobCalls == InitDispatch /\ [][NextJobCalls]_vars

\* The controller with a client that issues utility commands.
SpecUtility == InitFresh /\ [][NextUtility]_vars

NextExecute ==
    \/ \E j \in Jobs : ExecAccept(j)
    \/ \E j \in Jobs : ExecBusy(j)
    \/ \E j \in Jobs : \E src \in {"ok", "nosvg", "raise"} : ExecSetup(j, src)
    \/ \E j \in Jobs : ExecDrawReturn(j)
    \/ \E j \in Jobs : ExecDrawRaise(j)
    \/ \E j \in Jobs : ExecFinally(j)

\* MaxJob concurrent execute_job calls on an idle, initialized controller.
SpecExecute == InitIdle /\ [][NextExecute]_vars

\* ------------------------------------------------------------ properties

\* C1: at every instant, across any interleaving of execute_job, pause,
\* resume, stop and draw-worker completions, at most one blocking draw call
\* (plot_run for a job) is in flight on the controller.
C1_AtMostOneDrawInFlight == DrawsInFlight <= 1

\* C2: of the execute_job calls issued concurrently on an idle controller,
\* exactly one is accepted and on its way to or inside the draw call at a
\* time, and every other call that takes the lock meanwhile returns Busy
\* (and so never reaches a draw call).
C2_OneAcceptedOthersBusy ==
    [][ /\ Cardinality({j \in Jobs : pc[j] \in {"setup", "draw"}}) <= 1
        /\ \A k \in Jobs :
              (/\ pc[k] = "new"
               /\ pc'[k] # "new"
               /\ \E j \in Jobs \ {k} : pc[j] \in {"setup", "draw"})
              => (pc'[k] = "fin" /\ res'[k] = "Busy") ]_vars

\* C3: an execute_job call made while the status is PLOTTING returns Busy,
\* and no step of that call changes status, is_plotting, is_paused or
\* current_job.
C3_BusyLeavesJobUnaffected ==
    [][ \A j \in Jobs :
          /\ (status = "PLOTTING" /\ pc[j] = "new" /\ pc'[j] # "new")
                => (pc'[j] = "fin" /\ res'[j] = "Busy")
          /\ ((res[j] = "Busy" \/ res'[j] = "Busy") /\ pc'[j] # pc[j])
                => UNCHANGED <<status, is_plotting, is_paused, current_job>>
      ]_vars

\* C4: whenever the status is not IDLE, an execute_job call returns Busy
\* without starting a draw, and no step of a Busy call changes current_job.
C4_BusyUnlessIdle ==
    [][ \A j \in Jobs :
          /\ (status # "IDLE" /\ pc[j] = "new" /\ pc'[j] # "new")
                => (pc'[j] = "fin" /\ res'[j] = "Busy")
          /\ ((res[j] = "Busy" \/ res'[j] = "Busy") /\ pc'[j] # pc[j])
                => current_job' = current_job
      ]_vars

\* C5: no job is returned by two get_next_job calls; a job that a call
\* returns was queued before the call and is running, with started_at
\* stamped, when the call returns.
C5_GetNextJobAtomic ==
    [][ \A id \in QIds :
          /\ handed'[id] <= 1
          /\ handed'[id] > handed[id]
                => /\ jobs[id].status = "queued"
                   /\ jobs'[id].status = "running"
                   /\ jobs'[id].started_at ]_vars

\* Two get_next_job calls have returned, two different jobs, both running.
C5_Witness ==
    Cardinality({id \in QIds : handed[id] = 1 /\ jobs[id].status = "running"
                                 /\ jobs[id].started_at}) >= 2

\* C6: after add_job calls on an empty queue, every get_next_job call
\* returns, of the jobs not yet returned, one of highest priority and,
\* among those, the one added first (ids grow in the order of the add_job
\* calls); so successive calls return the jobs in non-increasing priority
\* order, FIFO within a priority.
C6_PriorityThenFifo ==
    [][ \A h \in QIds :
          handed'[h] > handed[h]
             => \A q \in QIds \ {h} :
                   jobs[q].status = "queued"
                      => \/ jobs[h].priority > jobs[q].priority
                         \/ (jobs[h].priority = jobs[q].priority /\ h < q)
      ]_vars

\* A(low), B(high), C(low) were added in that order; B and A have been
\* returned, C is still waiting: the order of return is B, A, C.
C6_Witness ==
    /\ next_id > 3
    /\ jobs[1].priority = 1 /\ jobs[2].priority = MaxPrio /\ jobs[3].priority = 1
    /\ handed[2] = 1 /\ jobs[2].status = "completed"
    /\ handed[1] = 1 /\ jobs[1].status = "running"
    /\ handed[3] = 0 /\ jobs[3].status = "queued"

\* The queue is in non-increasing priority order.
QueueSorted ==
    \A i \in 1..Len(queue) : \A k \in 1..Len(queue) :
        i < k => jobs[queue[i]].priority >= jobs[queue[k]].priority

\* Where add_job has put the job it added (the id next_id), against the
\* entries that were in the queue: those of equal or higher priority are
\* before it, those of strictly lower priority after it.
PlacedAfterEqualOrHigher ==
    LET n == next_id
        Pos(q, x) == CHOOSE i \in 1..Len(q) : q[i] = x
    IN /\ InQueue(queue', n)
       /\ \A e \in QIds :
             InQueue(queue, e)
                => IF jobs[e].priority >= jobs'[n].priority
                   THEN Pos(queue', e) < Pos(queue', n)
                   ELSE Pos(queue', n) < Pos(queue', e)

\* C7 as stated: in every reachable queue state, reorder_job's included,
\* add_job places the new job after all entries of equal or higher priority
\* and before every entry of strictly lower priority.
C7_AddPlacement_AnyQueue ==
    [][ next_id' = next_id + 1 => PlacedAfterEqualOrHigher ]_vars

\* C7 amended: the placement holds in every reachable queue state that is
\* in non-increasing priority order.
C7_AddPlacement_SortedQueue ==
    [][ (next_id' = next_id + 1 /\ QueueSorted) => PlacedAfterEqualOrHigher ]_vars

\* Job 3 was added to the sorted queue <<1, 2>> of priorities MaxPrio, 1
\* with priority MaxPrio: it sits after job 1 and before job 2.
C7_Witness ==
    /\ queue = <<1, 3, 2>>
    /\ jobs[1].priority = MaxPrio /\ jobs[3].priority = MaxPrio
    /\ jobs[2].priority = 1
    /\ \A i \in 1..3 : jobs[i].status = "queued"

\* C8: stop() is accepted exactly when the status is PLOTTING or PAUSED
\* (also for a paused job whose draw call has returned); an accepted stop()
\* leaves status IDLE and no current job, and the next execute_job is
\* accepted.
C8_StopFromPlottingOrPaused ==
    [][ /\ (status \in {"PLOTTING", "PAUSED"} <=> StopAccepts)
        /\ StopOk => (status' = "IDLE" /\ current_job' = NoJob /\ ExecuteAccepts')
      ]_vars

\* C9: pause() is accepted exactly when the status is PLOTTING; an accepted
\* pause() sets status PAUSED and signals the driver.
C9_PauseFromPlottingSignals ==
    [][ /\ (PauseAccepts <=> status = "PLOTTING")
        /\ PauseOk => (status' = "PAUSED" /\ PauseSignalsDriver)
      ]_vars

\* C10: resume() is accepted only when the status is PAUSED and an artifact
\* is retained; it then sets status PLOTTING and starts exactly one worker;
\* a resume() that returns False leaves status, is_plotting, is_paused and
\* current_job unchanged.
C10_ResumeFromPausedOnly ==
    [][ /\ ResumeAccepts => (status = "PAUSED" /\ ResumeHasArtifact)
        /\ (\E w \in Workers : ResumeOk(w))
              => /\ status' = "PLOTTING"
                 /\ Cardinality({w \in Workers : rpc'[w] # rpc[w]}) = 1
        /\ (ResumeRaise \/ ResumeRejectNoData \/ ResumeRejectNotPaused)
              => UNCHANGED <<status, is_plotting, is_paused, current_job>>
      ]_vars

\* C11: when a resumed draw returns and the worker finishes, the status
\* becomes IDLE if no pause() was accepted during the resumed draw; if one
\* was, the status stays PAUSED, the pause and its artifact are kept and a
\* further resume() is accepted.
C11_ResumedDrawReturn ==
    [][ \A w \in Workers :
          (rpc[w] = "fin" /\ rpc'[w] = "done")
             => IF is_paused
                THEN status' = "PAUSED" /\ is_paused' /\ ResumeAccepts'
                ELSE status' = "IDLE" ]_vars

\* C12: from an accepted stop() until a later job has been executed and
\* paused, resume() is rejected (it returns False) and no resume worker is
\* started: the stopped job is never resumed.
C12_NoResumeAfterStop ==
    [][ since_stop # "no_stop"
           => /\ ~ResumeAccepts
              /\ \A w \in Workers : ~(rpc[w] = "new" /\ rpc'[w] # "new") ]_vars

\* A paused job whose progress artifact is still held was stopped.
C12_Witness ==
    /\ since_stop = "stopped"
    /\ status = "IDLE"
    /\ progress_plob
    /\ ~ResumeAccepts

\* C13: cancel_job(id) is accepted exactly when the job exists and is
\* queued; an accepted call leaves the job cancelled; a rejected call (the
\* job running, terminal, or the id unknown) changes neither the jobs map
\* nor the queue.
C13_CancelOnlyQueued ==
    [][ \A id \in QIds :
          /\ CancelAccepts(id) <=> jobs[id].status = "queued"
          /\ CancelJob(id) => jobs'[id].status = "cancelled"
          /\ CancelReject(id) => UNCHANGED <<jobs, queue>> ]_vars

\* One job has been cancelled while another is running and in the queue:
\* cancel_job is rejected for the running one.
C13_Witness ==
    \E a \in QIds : \E b \in QIds :
        /\ jobs[a].status = "cancelled"
        /\ jobs[b].status = "running"
        /\ InQueue(queue, b)
        /\ ~CancelAccepts(b)

\* C14: a cancelled job is not in the queue, stays cancelled (until
\* cleanup_old_jobs drops its record), and no get_next_job call returns a
\* job that is cancelled or dropped, whatever add_job, reorder_job and the
\* dispatcher's get_next_job / complete_job / fail_job calls interleave.
C14_CancelledNeverDequeued ==
    [][ \A id \in QIds :
          /\ jobs[id].status = "cancelled"
                => /\ ~InQueue(queue, id)
                   /\ handed[id] = 0
                   /\ jobs'[id].status \in {"cancelled", "absent"}
          /\ handed'[id] > handed[id]
                => jobs[id].status \notin {"cancelled", "absent"} ]_vars

\* Job 1 was ahead of job 2 in the queue and was cancelled; get_next_job
\* has since returned job 2 and never job 1.
C14_Witness ==
    /\ jobs[1].status = "cancelled"
    /\ jobs[1].priority >= jobs[2].priority
    /\ handed[1] = 0
    /\ handed[2] = 1

\* C15: DELETE /jobs/<id> succeeds while the job is queued or running, and
\* for the job process_jobs is plotting (running, named by app_status) the
\* handler goes on to stop the plotter.
C15_DeleteQueuedOrRunning ==
    [][ \A id \in QIds :
          jobs[id].status \in {"queued", "running"} => DeleteJobAccepts(id)
      ]_vars

\* C16: a file of k chunks delivered one request at a time, in any order of
\* the indices.  /plot/chunk answers "chunk_received", with no final file
\* and no job, to every request but the one that brings the last missing
\* chunk, and that one leaves a final file equal to the chunks in index
\* order and one job; no request fails.  upload_layer_chunked leaves the
\* layer incomplete and without a file on every chunk but the last to
\* arrive, and on that one completes the layer with a file equal to the
\* chunks in index order.
EpAnswered(a) == {i \in SessionIdx : ep_pc[i] = a}
C16_Endpoint ==
    /\ EpAnswered("error") = {}
    /\ Cardinality(EpAnswered("created")) <= 1
    /\ (\E i \in SessionIdx : ep_pc[i] = "new") =>
          /\ ep_final = <<>>
          /\ next_id = 1
          /\ \A i \in SessionIdx : ep_pc[i] \in {"new", "saved", "received"}
    /\ (\A i \in SessionIdx : ep_pc[i] \in {"received", "created"}) =>
          Cardinality(EpAnswered("created")) = 1
    /\ EpAnswered("created") # {} =>
          /\ ep_final = OrigFile
          /\ next_id = 2
          /\ jobs[1].status = "queued"
          /\ EpAnswered("received") = SessionIdx \ EpAnswered("created")
C16_Layer ==
    \A l \in Layers, i \in Idx :
        LayerSendOnce(l, i) =>
            IF Stored(pm_tmp[l]) \cup {i} = SessionIdx
            THEN /\ pm_layers'[l].status = "complete"
                 /\ pm_file'[l] = OrigFile
            ELSE /\ pm_layers'[l].status # "complete"
                 /\ pm_file'[l] = <<>>
C16_ChunksInAnyOrder == [](C16_Endpoint) /\ [][C16_Layer]_vars
\* A file of MaxChunks chunks whose first and last chunk differ: chunk 0 was
\* the last to reach /plot/chunk, and both receivers have the whole file.
C16_Witness ==
    /\ total_chunks = MaxChunks
    /\ orig[0] # orig[MaxChunks - 1]
    /\ ep_pc[0] = "created"
    /\ ep_final = OrigFile
    /\ pm_layers[0].status = "complete"
    /\ pm_file[0] = OrigFile

\* C17: the chunks of one upload arrive at /plot/chunk in concurrent
\* requests.  The completion check and the reassembly are serialized: at
\* most one request is between its count of the chunk files and the end of
\* its reassembly, the reassembly runs exactly once and exactly one job is
\* created; no request fails.
EpInAssembly == {i \in SessionIdx : ep_pc[i] \in {"assemble", "rmtree", "job"}}
C17_ReassemblyOnce ==
    /\ Cardinality(EpInAssembly) <= 1
    /\ ep_assemblies <= 1
    /\ next_id <= 2
    /\ EpAnswered("error") = {}
    /\ (\A i \in SessionIdx : ep_pc[i] \in {"received", "created"}) =>
          /\ ep_assemblies = 1
          /\ next_id = 2

\* C18: a request that brings a chunk index already received, before the
\* upload is complete, only replaces that chunk's bytes: the stored chunks
\* are the ones stored before with the bytes of that index replaced (so the
\* set and the count of received indices and every other chunk are as they
\* were), and the upload is as incomplete as before; in /plot/chunk, in
\* upload_layer_chunked and in upload_svg_chunked.
C18_Endpoint ==
    \A i \in Idx, d \in Data :
        (ep_tmp[i] # NoData /\ EpSendAny(i, d)) =>
            /\ ep_tmp' = [ep_tmp EXCEPT ![i] = d]
            /\ AllUploaded(ep_tmp') = AllUploaded(ep_tmp)
            /\ ep_final' = ep_final
C18_Layer ==
    \A l \in Layers, i \in Idx, d \in Data :
        (pm_tmp[l][i] # NoData /\ LayerSendAny(l, i, d)) =>
            /\ pm_tmp'[l] = [pm_tmp[l] EXCEPT ![i] = d]
            /\ pm_file' = pm_file
            /\ (pm_layers'[l].status = "complete") = (pm_layers[l].status = "complete")
C18_Svg ==
    \A i \in Idx, d \in Data :
        (svg_tmp[i] # NoData /\ SvgSendAny(i, d)) =>
            /\ svg_tmp' = [svg_tmp EXCEPT ![i] = d]
            /\ svg_file' = svg_file
            /\ svg_uploading' = svg_uploading
C18_ResendReplacesBytes == [][C18_Endpoint /\ C18_Layer /\ C18_Svg]_vars

\* C19: the progress that upload_layer_chunked and upload_svg_chunked
\* report after a chunk is the whole percentage of the chunks received,
\* floor(received_count / total_chunks * 100), where received_count is the
\* number of distinct indices received so far, whatever their order.
ReceivedPercent(tmp) == (Cardinality(Stored(tmp)) * 100) \div total_chunks
C19_Layer ==
    \A l \in Layers, i \in Idx, d \in Data :
        LayerSendAny(l, i, d) =>
            pm_layers'[l].progress = ReceivedPercent([pm_tmp[l] EXCEPT ![i] = d])
C19_Svg ==
    \A i \in Idx, d \in Data :
        SvgSendAny(i, d) =>
            svg_progress' =
                ReceivedPercent([(IF i = 0 THEN NoChunks ELSE svg_tmp) EXCEPT ![i] = d])
C19_ProgressIsReceivedShare == [][C19_Layer /\ C19_Svg]_vars

\* C20: after any sequence of create_project, upload_layer and
\* upload_layer_chunked calls, successful or failing, the project's status
\* is 'ready' exactly when uploaded_layers equals total_layers.
C20_ReadyIffAllUploaded ==
    pm_project => ((pm_status = "ready") <=> (pm_uploaded = pm_total_layers))

\* C21: create_project replaces the current project whatever that was:
\* after the call the project is the new one, created, with each of its
\* layers not_started at progress 0 and uploaded_layers 0, and no layer
\* file and no chunk file of the previous project is left on disk.
C21_CreateReplacesProject ==
    [][ \A n \in 1..MaxLayers :
          CreateProject(n) =>
            /\ pm_project'
            /\ pm_total_layers' = n
            /\ pm_status' = "created"
            /\ pm_uploaded' = 0
            /\ \A l \in Layers :
                  /\ l < n => pm_layers'[l] = [status |-> "not_started",
                                               progress |-> 0]
                  /\ l >= n => pm_layers'[l] = NoLayer
                  /\ pm_file'[l] = <<>>
                  /\ pm_tmp'[l] = NoChunks ]_vars

\* create_project has just replaced a project that had files on disk.
C21_Witness ==
    /\ pm_replaced = "files"
    /\ pm_status = "created"
    /\ ~ProjectHasFiles

\* C22: add_job is refused with "Queue is full" exactly when the queue
\* already holds max_queue_size entries, and the refused call leaves the
\* jobs map and the queue as they were; so the queue never holds more than
\* max_queue_size entries, whatever operations are applied.
C22_Refusal ==
    /\ Len(queue) >= QueueCap => \A p \in Prios : ~AddJobWithin(p, QueueCap)
    /\ AddJobFull(QueueCap) =>
          /\ Len(queue) >= QueueCap
          /\ UNCHANGED <<jobs, queue, next_id>>
    /\ (\E p \in Prios : AddJobWithin(p, QueueCap)) =>
          /\ Len(queue) < QueueCap
          /\ Len(queue') = Len(queue) + 1
C22_QueueFull == [](Len(queue) <= QueueCap) /\ [][C22_Refusal]_vars

\* The queue is full (one of its entries is running, so still counted)
\* and a further id is available: add_job is refused.
C22_Witness ==
    /\ Len(queue) = QueueCap
    /\ next_id <= MaxQJobs
    /\ \E i \in 1..Len(queue) : jobs[queue[i]].status = "running"
    /\ ENABLED AddJobFull(QueueCap)

\* C23: every mutating JobQueue operation that reports success (add_job,
\* get_next_job, complete_job, fail_job, cancel_job, reorder_job,
\* clear_queue, cleanup_old_jobs, update_job_progress) returns with the
\* queue file holding the jobs map and the queue order it leaves in memory.
MutatingCallReturns ==
    \/ \E p \in Prios : AddJob(p)
    \/ GetNextJob
    \/ \E id \in QIds : CompleteJob(id) \/ FailJob(id) \/ CancelJob(id)
    \/ \E id \in QIds : \E pos \in 0..(MaxQJobs + 1) : ReorderJob(id, pos)
    \/ ClearQueue
    \/ \E old \in SUBSET QIds : CleanupOldJobs(old)
    \/ \E id \in QIds, changes \in BOOLEAN : UpdateJobProgress(id, changes)
C23_SavedBeforeSuccess ==
    [][ MutatingCallReturns => (qfile' = "saved" /\ mem_saved') ]_vars

\* C24: when a file operation of save_queue fails, save_queue leaves the
\* queue file holding the state written by the last successful save: not
\* a partial write, not a missing file, not an earlier state.
C24_FailedSaveRestores ==
    [][ faults' < faults => qfile' = "saved" ]_vars

\* C25: when the driver's draw call raises, in execute_job or in the worker
\* started by resume, the call that ran it ends with the controller IDLE,
\* with no current job and ready to accept the next execute_job.
C25_DriverFailureLocal ==
    [][ /\ \A j \in Jobs :
             (res[j] = "draw_error" /\ ExecFinally(j)) =>
                 /\ status' = "IDLE"
                 /\ current_job' = NoJob
                 /\ ExecuteAccepts'
        /\ \A w \in Workers :
             ResumeFinishError(w) =>
                 /\ status' = "IDLE"
                 /\ current_job' = NoJob
                 /\ ExecuteAccepts' ]_vars

\* --------------------------------------------------- claim C26
\* C26: once initialize() has failed and left ERROR, the status stays ERROR
\* and no draw starts until an initialize() succeeds: whatever else is
\* called meanwhile, the ERROR set by initialize() stands.
StartsDraw ==
    \/ \E j \in CtlJobs : pc[j] # "draw" /\ pc'[j] = "draw"
    \/ \E w \in Workers : rpc[w] # "draw" /\ rpc'[w] = "draw"

C26_ErrorIsSticky ==
    [][ (init_failed /\ ~InitializeOk) => (status' = "ERROR" /\ ~StartsDraw) ]_vars

\* --------------------------------------------------- claim C27
\* C27: an execute_job whose job has neither inline SVG nor an existing
\* file never reaches the draw call, and when it returns the controller is
\* IDLE with no current job.
NoSvgReturns(j) == res[j] = "NoSvg" /\ ExecFinally(j)

C27_NoSvgLeavesIdle ==
    [][ \A j \in CtlJobs :
          /\ res'[j] = "NoSvg" => pc'[j] # "draw" /\ pc[j] # "draw"
          /\ NoSvgReturns(j) => (status' = "IDLE" /\ current_job' = NoJob) ]_vars

\* --------------------------------------------------- claim C28
\* C28: a utility command is rejected exactly while the status is PLOTTING;
\* in any other state it runs, and when it has run, status, is_plotting,
\* is_paused and current_job are what they were when it was issued.
UtilityRuns ==
    \/ \E cmd \in PlainUtilities : UtilityRun(cmd)
    \/ \E j \in CtlJobs : UtilityBullseye(j)
    \/ UtilityBullseyeNoConfig
BullseyeDrawn == util.phase = "bullseye" /\ ExecFinally(util.job)

C28_UtilityLeavesState ==
    [][ /\ (\E cmd \in UtilityCommands : UtilityReject(cmd))
             => status = "PLOTTING"
        /\ UtilityRuns => status # "PLOTTING"
        /\ UtilityRuns => UNCHANGED <<status, is_plotting, is_paused, current_job>>
        /\ BullseyeDrawn => Snapshot' = util.pre ]_vars

\* --------------------------------------------------- claim C29
\* C29: a run of a job that was paused once and resumed to completion ends
\* like an uninterrupted run of it: with a driver that does not fail, the
\* job is completed in the queue and the counters have moved by one total,
\* one successful and no failed job, for every job that has been run.
Ran == {id \in Jobs : pc[id] = "done"}
AllRunsOver ==
    /\ proc_pc[1] = "idle"
    /\ \A j \in Jobs : pc[j] \in {"new", "done"}
    /\ \A w \in Workers : rpc[w] \in {"new", "done"}
    /\ ~is_paused
Uninterrupted(n) ==
    [total_jobs |-> n, successful_jobs |-> n, failed_jobs |-> 0]

C29_PausedRunEndsAlike ==
    AllRunsOver =>
        /\ \A id \in Ran : jobs[id].status = "completed"
        /\ stats = Uninterrupted(Cardinality(Ran))

\* --------------------------------------------------- claim C30
\* C30: reorder_job(id, new_position) succeeds only for a job that is in the
\* queue with status queued; the job is then at the 1-based position
\* new_position clamped to [1, queue length], and the queue has the same
\* entries with all the others in their former relative order; a call that
\* returns False leaves the queue as it was.  (reorder_job assigns neither
\* the jobs map nor the counters, so only such steps are looked at.)
Clamp(pos, lo, hi) == IF pos < lo THEN lo ELSE IF pos > hi THEN hi ELSE pos

C30_ReorderPlacesJob ==
    [][ UNCHANGED <<jobs, next_id, handed>> =>
          \A id \in QIds :
            /\ \A pos \in 0..(MaxQJobs + 1) :
                  ReorderJob(id, pos) =>
                      /\ InQueue(queue, id) /\ jobs[id].status = "queued"
                      /\ Len(queue') = Len(queue)
                      /\ queue'[Clamp(pos, 1, Len(queue))] = id
                      /\ Remove(queue', id) = Remove(queue, id)
            /\ ReorderReject(id) => queue' = queue ]_vars

\* A queue of three queued jobs of one priority in which the job added last
\* is in the middle: only reorder_job puts it there.
C30_Witness ==
    /\ Len(queue) = 3
    /\ \A i \in 1..3 : jobs[queue[i]].status = "queued"
    /\ \A i \in 1..3 : jobs[queue[i]].priority = jobs[queue[1]].priority
    /\ queue[2] = 3

\* --------------------------------------------------- claim C31
\* C31: with process_jobs threads started by the submissions, at most one
\* job of the queue is running at any instant, and no job handed out by
\* get_next_job has its execute_job call answered Busy.
Running == {id \in QIds : jobs[id].status = "running"}

C31_OneRunningJob ==
    /\ [](Cardinality(Running) <= 1)
    /\ [][ \A t \in Threads : ~ProcCallBusy(t) ]_vars

\* --------------------------------------------------- claim C32
\* C32: while the controller is PAUSED with a job retained, that job is
\* neither completed nor failed in the queue: process_jobs marks a job
\* completed only when its draw ran to the end.
PausedJob == IF status = "PAUSED" /\ is_paused THEN current_job ELSE NoJob

C32_PausedJobNotReported ==
    PausedJob \in QIds => jobs[PausedJob].status \notin {"completed", "failed"}

\* --------------------------------------------------- claim C33
\* C33: under fair scheduling on an initialized controller, if every paused
\* job is resumed in the end, every job accepted by add_job reaches a
\* terminal status (completed, failed or cancelled) in the end, also when
\* draw calls raise.
Terminal == {"completed", "failed", "cancelled"}
PausedJobsResumed == is_paused ~> ~is_paused

C33_EveryJobEnds ==
    PausedJobsResumed =>
        \A id \in QIds : (jobs[id].status = "queued") ~> (jobs[id].status \in Terminal)

\* --------------------------------------------------- claim C34
\* C34: self.lock is never held across a draw call, by execute_job or by
\* the resume_thread; while a draw is in flight pause() and stop() either
\* find the lock free and run, or wait for a holder whose block can finish
\* without the draw returning.
DrawInFlight ==
    \/ \E j \in CtlJobs : pc[j] = "draw"
    \/ \E w \in Workers : rpc[w] = "draw"
PauseCalls == PauseOk \/ PauseReject
StopCalls == StopOk \/ StopReject

C34_LockFreeDuringDraw ==
    /\ \A j \in CtlJobs : pc[j] \in {"setup", "draw"} => lock # ExecCall(j)
    /\ \A w \in Workers : rpc[w] \in {"start", "draw"} => lock # WorkerCall(w)
    /\ DrawInFlight =>
          IF lock = NoHolder THEN ENABLED PauseCalls /\ ENABLED StopCalls
          ELSE ENABLED LockedBlocks

\* Both kinds of draw are in flight and a pause() call holds the lock.
C34_Witness ==
    /\ \E j \in CtlJobs : pc[j] = "draw"
    /\ \E w \in Workers : rpc[w] = "draw"
    /\ lock = PauseCall

\* --------------------------------------------------- claim C35
\* C35: in every state, which is every instant at which get_status (which
\* takes no lock) can read it, self.status is one of DISCONNECTED, IDLE,
\* PLOTTING, PAUSED and ERROR.
C35_StatusIsOneOfFive ==
    status \in {"DISCONNECTED", "IDLE", "PLOTTING", "PAUSED", "ERROR"}

\* --------------------------------------------------- claim C36
\* C36: a reassembly that finds a chunk unreadable ends in an error, does
\* not mark the upload complete, and leaves every chunk of the session
\* stored, in upload_layer_chunked and in /plot/chunk.
AllStored(tmp) == \A j \in SessionIdx : tmp[j] # NoData

C36_UnreadableChunkKeepsChunks ==
    [][ /\ \A l \in Layers :
            (\E i \in Idx, k \in Idx : LayerReadFails(l, i, k)) =>
                /\ pm_layers'[l].status = "error"
                /\ AllStored(pm_tmp'[l])
        /\ \A i \in Idx :
            (\E k \in Idx : EpAssembleReadFails(i, k)) =>
                /\ ep_pc'[i] = "error"
                /\ AllStored(ep_tmp')
      ]_vars

\* --------------------------------------------------- claim C37
\* C37: whatever the order in which the client sends the chunks of a file
\* to upload_svg_chunked, each once, the upload is complete exactly when
\* every index has been sent, and the SVG file is then the chunks in index
\* order.
SvgComplete == svg_cur /\ ~svg_uploading

C37_SvgAnyOrder ==
    /\ SvgComplete <=> svg_sent = SessionIdx
    /\ SvgComplete => svg_file = OrigFile

\* --------------------------------------------------- claim C38
\* C38: while an accepted execute_job call J is before the return of its
\* own draw call, and the controller has J as current_job with status
\* PLOTTING or PAUSED, every step other than an accepted stop() leaves
\* current_job = J and the status PLOTTING or PAUSED.
InOwnDraw(j) == pc[j] \in {"setup", "draw"}
Owns(j) == current_job = j /\ status \in {"PLOTTING", "PAUSED"}

C38_AcceptedJobOwnsController ==
    [][ \A j \in CtlJobs :
          (InOwnDraw(j) /\ Owns(j) /\ InOwnDraw(j)' /\ ~StopOk) => Owns(j)' ]_vars

\* --------------------------------------------------- claim C39
\* C39: every id of the queue list occurs in it once and names a job of the
\* jobs dict whose status is queued or running, and every queued or running
\* job is in the queue list.
Active == {"queued", "running"}

C39_QueueListsActiveJobs ==
    /\ \A a, b \in 1..Len(queue) : queue[a] = queue[b] => a = b
    /\ \A a \in 1..Len(queue) : jobs[queue[a]].status \in Active
    /\ \A id \in QIds : jobs[id].status \in Active => InQueue(queue, id)

\* A queued job at the head of the queue list, a running one behind it, and
\* a job that has reached a terminal status.
C39_Witness ==
    /\ Len(queue) >= 2
    /\ jobs[queue[1]].status = "queued"
    /\ \E a \in 1..Len(queue) : jobs[queue[a]].status = "running"
    /\ \E id \in QIds : jobs[id].status \in Terminal

\* --------------------------------------------------- claim C40
\* C40: the status of a job changes only from queued to running, from
\* running to completed or failed, and from queued to cancelled (a terminal
\* status never changes), and a job whose draw was in flight at an accepted
\* stop() is not marked completed afterwards.
Moves ==
    {<<"absent", "queued">>, <<"queued", "running">>, <<"running", "completed">>,
     <<"running", "failed">>, <<"queued", "cancelled">>}

C40_StatusMovesForward ==
    [][ \A id \in QIds :
          /\ jobs'[id].status # jobs[id].status =>
                <<jobs[id].status, jobs'[id].status>> \in Moves
          /\ id \in stopped => jobs'[id].status \in {jobs[id].status, "failed"}
      ]_vars

====
